---- MODULE Spec2Model ----
(***************************************************************************)
(* Session controllers of the Salin voice translation client.              *)
(*                                                                         *)
(* The repository holds four variants of the React component App:          *)
(*   A  src/App.tsx, lines 12-407          (retry, wake-gated)             *)
(*   B  src/App.tsx, lines 419-746         (re-entrancy flag, no retry)    *)
(*   D  src/unnamed/part_000, lines 323-648 (re-entrancy flag and retry)   *)
(* Each variant is one record variable: its React state (the values of the *)
(* last committed render), its refs, and the objects it created in the     *)
(* browser (audio contexts, live sessions, timers).                        *)
(*                                                                         *)
(* Every event handler is one action: the handler runs to completion and   *)
(* React commits the batched state updates (the last setX of a handler     *)
(* wins).  An async function is cut at its awaits.  A function created     *)
(* during a render reads the state of that render: the values a            *)
(* startSession invocation closes over are kept with the invocation        *)
(* (field cl) and are handed on to the retry timer its onerror creates.    *)
(*                                                                         *)
(* The live socket is the browser's WebSocket: a socket that fails fires   *)
(* its error event and then its close event in one task; a socket closed   *)
(* by close() or by the remote end fires its close event alone.            *)
(***************************************************************************)
EXTENDS Integers, Sequences, FiniteSets, TLC

VARIABLES appA, appB, appC, appD, codec, sw

vars == <<appA, appB, appC, appD, codec, sw>>

\* useRef(null): a ref that holds no object.
Null == 0

\* Bounds of the model.
MaxAttempts == 2
MaxRetryAttempts == 5
MaxOfflineAttempts == 3
MaxChunks == 1
MaxTime == 1
MaxDuration == 1
MaxPlayChunks == 3
MaxPlayTime == 3
MaxPlayDuration == 2
MaxRestarts == 1
MaxAttemptsD == 3
MaxFragment == 2
MaxText == 3
MaxEntries == 2
MaxAttemptsC == 1
MaxHeardFragment == 2
MaxHeard == 3
MaxSaidFragment == 2
MaxSaid == 4
MaxEntriesA == 1

\* Text is a sequence of characters; Blank is the whitespace character.
Blank == " "

\* String.prototype.trim: the text without its leading and trailing
\* whitespace.
RECURSIVE TrimLeft(_)
TrimLeft(txt) ==
  IF txt # <<>> /\ Head(txt) = Blank THEN TrimLeft(Tail(txt)) ELSE txt

RECURSIVE TrimRight(_)
TrimRight(txt) ==
  IF txt # <<>> /\ txt[Len(txt)] = Blank
  THEN TrimRight(SubSeq(txt, 1, Len(txt) - 1))
  ELSE txt

Trim(txt) == TrimRight(TrimLeft(txt))

\* The texts of at most n pieces over an alphabet.  A piece is a run of
\* characters that no fragment boundary cuts.
TextsOver(alphabet, n) == UNION {[1..len -> alphabet] : len \in 0..n}

\* String.prototype.toLowerCase on the pieces that have upper-case letters.
ToLowerCase(txt) ==
  LET lower(p) == CASE p = "SA" -> "sa"
                    [] p = "HAPPY" -> "happy"
                    [] p = "SAD" -> "sad"
                    [] p = "ANGRY" -> "angry"
                    [] p = "SURPRISED" -> "surprised"
                    [] p = "COOL" -> "cool"
                    [] p = "[HAPPY" -> "[happy"
                    [] p = "[SAD" -> "[sad"
                    [] OTHER -> p
  IN [i \in 1..Len(txt) |-> lower(txt[i])]

\* String.prototype.includes
Includes(txt, pat) ==
  \E i \in 0..(Len(txt) - Len(pat)) : SubSeq(txt, i + 1, i + Len(pat)) = pat

(***************************************************************************)
(*                     Variant A: src/App.tsx, first App                   *)
(***************************************************************************)
MAX_RETRIES_A == 3
RETRY_DELAY_BASE == 2000

\* The render state a startSession closure reads.
ClosureA(s) ==
  [isOnline |-> s.isOnline, status |-> s.status, isAwake |-> s.isAwake]

NoClosure == [isOnline |-> FALSE, status |-> "IDLE", isAwake |-> FALSE]

NoInstruction == [mode |-> "", isPoliteMode |-> FALSE]

\* One invocation of startSession that passed the online check.  pc:
\*   "mic"     awaiting getUserMedia
\*   "conn"    ai.live.connect called, socket not open yet
\*   "open"    socket open: the session is live
\*   "errd"    the socket failed: onerror runs, onclose follows in the same task
\*   "closing" close() was called on the open session, close event pending
\*   "done"    nothing more happens for this invocation
Attempt(cl) == [pc |-> "mic", cl |-> cl]

Finished == [pc |-> "done", cl |-> NoClosure]

InitAppA(online) ==
  [ status |-> "IDLE", mode |-> "TRANSLATE", isSpeaking |-> FALSE,
    isAwake |-> FALSE, volume |-> 0, isOnline |-> online,
    isPoliteMode |-> FALSE, currentMood |-> "neutral",
    sessionRef |-> Null, inputAudioCtxRef |-> Null, outputAudioCtxRef |-> Null,
    nextStartTimeRef |-> 0, sourcesRef |-> {}, retryCountRef |-> 0,
    retryTimeoutRef |-> Null,
    \* the browser: startSession invocations, open audio contexts, capture
    \* wiring, pending timers, audio chunks
    att |-> <<>>,
    inOpen |-> {}, outOpen |-> {}, captures |-> {},
    timers |-> {}, nTimers |-> 0, restarts |-> <<>>,
    decoding |-> {}, playing |-> {}, nChunks |-> 0,
    \* clock: the last currentTime read from the playback context;
    \* audible: the chunks started and neither stopped nor ended
    clock |-> 0, audible |-> {},
    \* history of source.start: sched, the chunks started since the last
    \* interruption or stop, in the order of their start; lastStart and
    \* prevStart, the start times of the last two chunks of the session;
    \* lastFresh, whether the last chunk's message came after every
    \* interruption so far
    sched |-> <<>>, lastStart |-> -1, prevStart |-> -1, lastFresh |-> TRUE,
    \* the transcript: the buffers of the current turn and the entries
    transcriptionRef |-> [input |-> <<>>, output |-> <<>>], history |-> <<>>,
    \* history of the turn: heard, the case-folded input fragments received
    \* since the last turn-complete, put together; moodSet, whether an output
    \* fragment has set the mood since then; turnBuf, the buffers as the last
    \* turn-complete block found them
    heard |-> <<>>, moodSet |-> FALSE,
    turnBuf |-> [input |-> <<>>, output |-> <<>>],
    \* history
    lastH |-> "other", finalErr |-> FALSE, runFirst |-> 0,
    errRun |-> 0, runTimers |-> 0, runErrors |-> 0, closeCalls |-> 0,
    runDelay |-> 0, runK |-> 0, chain |-> {}, wanted |-> <<>>,
    \* frameTo: the session the last handler called sendRealtimeInput on
    instruction |-> NoInstruction, frameTo |-> Null ]

\* session.close(): an open socket starts closing; on any other it does nothing.
closeSessionA(s, k) ==
  [s EXCEPT !.att[k].pc = IF @ = "open" THEN "closing" ELSE @,
            !.closeCalls = @ + 1]

closeCtxA(s, which) ==
  IF which = "in"
  THEN IF s.inputAudioCtxRef # Null
       THEN [s EXCEPT !.inOpen = @ \ {s.inputAudioCtxRef},
                      !.closeCalls = IF s.inputAudioCtxRef \in s.inOpen
                                     THEN @ + 1 ELSE @,
                      !.inputAudioCtxRef = Null]
       ELSE s
  ELSE IF s.outputAudioCtxRef # Null
       THEN [s EXCEPT !.outOpen = @ \ {s.outputAudioCtxRef},
                      !.closeCalls = IF s.outputAudioCtxRef \in s.outOpen
                                     THEN @ + 1 ELSE @,
                      !.outputAudioCtxRef = Null]
       ELSE s

\* sourcesRef.current.forEach(s => s.stop()); sourcesRef.current.clear().
\* History: the chunks still being decoded were received before this point.
silenceA(s) ==
  [s EXCEPT !.audible = @ \ s.sourcesRef, !.sourcesRef = {},
            !.sched = <<>>,
            !.decoding = {[d EXCEPT !.tainted = TRUE] : d \in @}]

\* stopSession that forgets sessionRef.current = null.
stopSessionA_KeepsHandle(s) ==
  LET s1 == IF s.retryTimeoutRef # Null
            THEN [s EXCEPT !.timers = {t \in @ : t.id # s.retryTimeoutRef},
                           !.retryTimeoutRef = Null]
            ELSE s
      s2 == IF s1.sessionRef # Null
            THEN closeSessionA(s1, s1.sessionRef)
            ELSE s1
      s3 == silenceA(s2)
      s4 == closeCtxA(closeCtxA(s3, "in"), "out")
  IN [s4 EXCEPT !.status = "IDLE", !.isSpeaking = FALSE, !.isAwake = FALSE,
                !.currentMood = "neutral", !.nextStartTimeRef = 0,
                !.retryCountRef = 0, !.lastStart = -1, !.prevStart = -1,
                !.lastFresh = TRUE, !.moodSet = FALSE]

stopSessionA(s) ==
  LET s1 == IF s.retryTimeoutRef # Null
            THEN [s EXCEPT !.timers = {t \in @ : t.id # s.retryTimeoutRef},
                           !.retryTimeoutRef = Null]
            ELSE s
      s2 == IF s1.sessionRef # Null
            THEN [closeSessionA(s1, s1.sessionRef) EXCEPT !.sessionRef = Null]
            ELSE s1
      s3 == silenceA(s2)
      s4 == closeCtxA(closeCtxA(s3, "in"), "out")
  IN [s4 EXCEPT !.status = "IDLE", !.isSpeaking = FALSE, !.isAwake = FALSE,
                !.currentMood = "neutral", !.nextStartTimeRef = 0,
                !.retryCountRef = 0, !.lastStart = -1, !.prevStart = -1,
                !.lastFresh = TRUE, !.moodSet = FALSE]

\* startSession up to its first await (getUserMedia).  cl is the render state
\* the invoked closure reads.
startSessionA(s, cl) ==
  IF ~cl.isOnline
  THEN [s EXCEPT !.status = "ERROR"]
  ELSE LET k == Len(s.att) + 1 IN
       [s EXCEPT !.status = IF s.retryCountRef = 0 THEN "CONNECTING"
                                                   ELSE "RECONNECTING",
                 !.isAwake = FALSE,
                 !.inputAudioCtxRef = k, !.outputAudioCtxRef = k,
                 !.inOpen = @ \cup {k}, !.outOpen = @ \cup {k},
                 !.clock = 0,
                 !.att = Append(@, Attempt(cl))]

\* The bound on startSession invocations.
CanStartA(s, cl, max) == cl.isOnline => Len(s.att) < max

\* What a handler leaves behind once React has committed.  lastH names the
\* handler when a property below asks about it.  The other history fields:
\*   finalErr   an onerror that may not retry (not transient, or the retry
\*              counter at MAX_RETRIES) has run since the last user start
\*   runFirst   the first startSession invocation of the last user start
\*   errRun     transient onerror events in a row, with no onopen and no
\*              user start between them
\*   runTimers  retry timers set by the events errRun counts
\*   runErrors  onerror handlers of that row that left status ERROR
\*   wanted     for each pending 100 ms restart, the mode and the politeness
\*              flag set by the handler that scheduled it
\*   runDelay   the delay of the last retry timer set, 0 if none
\*   runK       the place of that timer in its chain of reconnects
\*   chain      for each invocation a retry timer started: the place k of
\*              that timer in its chain and its delay; a chain is an
\*              invocation, the timer its onerror sets, the invocation that
\*              timer starts, and so on, until an onopen or a start or stop
\*              by the user
\*   closeCalls close() calls a handler made on sessions and open contexts
\*   instruction the mode and the politeness flag in the system instruction
\*              of the attempt the handler started from a restart timer
CommitA(new, h) ==
  [new EXCEPT !.lastH = h, !.closeCalls = 0, !.instruction = NoInstruction,
              !.frameTo = Null]

handleToggleSessionA(s) ==
  IF s.status \in {"IDLE", "ERROR"}
  THEN startSessionA([s EXCEPT !.retryCountRef = 0], ClosureA(s))
  ELSE IF s.status \in {"CONNECTED", "RECONNECTING"}
       THEN IF ~s.isAwake THEN [s EXCEPT !.isAwake = TRUE] ELSE stopSessionA(s)
       ELSE s

\* setTimeout(() => startSession(), 100): the timer holds the startSession
\* of the render r in which the button was pressed, with the mode and the
\* politeness flag of that render for its system instruction.
restartLaterA(s, r) ==
  [s EXCEPT !.restarts = Append(@, [cl |-> ClosureA(r), mode |-> r.mode,
                                    isPoliteMode |-> r.isPoliteMode]),
            !.wanted = Append(@, [mode |-> s.mode,
                                  isPoliteMode |-> s.isPoliteMode])]

togglePoliteModeA(s) ==
  LET s1 == [s EXCEPT !.isPoliteMode = ~s.isPoliteMode] IN
  IF s.status \in {"CONNECTED", "RECONNECTING"}
  THEN restartLaterA(stopSessionA(s1), s)
  ELSE s1

switchModeA(s, newMode) ==
  IF newMode = s.mode THEN s
  ELSE LET s1 == [s EXCEPT !.mode = newMode] IN
       IF s.status \in {"CONNECTED", "RECONNECTING"}
       THEN restartLaterA(stopSessionA(s1), s)
       ELSE s1

handleOnlineA(s) == [s EXCEPT !.isOnline = TRUE]

handleOfflineA(s) == stopSessionA([s EXCEPT !.isOnline = FALSE])

\* getUserMedia resolved: startSession goes on to ai.live.connect.
micResolvedA(s, k) == [s EXCEPT !.att[k].pc = "conn"]

\* The catch of startSession: getUserMedia or connect rejected.
startFailedA(s, k) ==
  [s EXCEPT !.status = "ERROR", !.att[k] = Finished]

\* onopen, and then sessionRef.current = await sessionPromise.
onopenA(s, k) ==
  LET s1 == [s EXCEPT !.status = "CONNECTED", !.retryCountRef = 0,
                      !.att[k].pc = "open"]
      s2 == IF s1.inputAudioCtxRef = Null THEN s1
            ELSE [s1 EXCEPT !.captures =
                     @ \cup {[ctx |-> s1.inputAudioCtxRef, sess |-> k]}]
  IN [s2 EXCEPT !.sessionRef = k]

\* scriptProcessor.onaudioprocess of the capture c, with v the volume of the
\* frame: the guard reads the state of the context inputAudioCtxRef holds
\* now (none: the guard lets the callback go on), and the frame goes to the
\* session of the sessionPromise the callback has closed over.
onaudioprocessA(s, c, v) ==
  IF s.inputAudioCtxRef # Null /\ s.inputAudioCtxRef \notin s.inOpen
  THEN s
  ELSE [s EXCEPT !.volume = v, !.frameTo = c.sess]

\* The interrupted block without the reset of the timeline cursor.
onmessageRestA_KeepsCursor(s, m) ==
  IF m.interrupted
  THEN [silenceA(s) EXCEPT !.isSpeaking = FALSE]
  ELSE s

\* The interrupted block of onmessage.
onmessageRestA(s, m) ==
  IF m.interrupted
  THEN [silenceA(s) EXCEPT !.nextStartTimeRef = 0, !.isSpeaking = FALSE]
  ELSE s

\* const wakeTriggers: every phrase of the list contains the last one,
\* "sali", so a text includes one of them exactly when it includes "sali".
wakeTriggers == {<<"sa", "li">>}

\* const moods, in the order of the for loop.
moods == <<"HAPPY", "SAD", "ANGRY", "SURPRISED", "COOL">>

\* `[${m}]`: the bracketed tag of a mood word; the opening bracket and the
\* word are one piece.
MoodTag(word) == <<"[" \o word, "]">>

\* The for loop over moods: the index of the first mood whose tag the text
\* includes, 0 when it includes none.
firstMood(text) ==
  LET found == {i \in 1..Len(moods) : Includes(text, MoodTag(moods[i]))}
  IN IF found = {} THEN 0
     ELSE CHOOSE i \in found : \A j \in found : i <= j

\* modelText.replace(/\[(HAPPY|SAD|ANGRY|SURPRISED|COOL|NEUTRAL)\]/gi, ''):
\* one scan from the left that drops every match and goes on behind it.
RECURSIVE stripMoodTags(_)
stripMoodTags(txt) ==
  IF Len(txt) < 2 THEN txt
  ELSE IF /\ txt[2] = "]"
          /\ ToLowerCase(<<txt[1]>>)[1] \in
               {"[happy", "[sad", "[angry", "[surprised", "[cool", "[neutral"}
       THEN stripMoodTags(SubSeq(txt, 3, Len(txt)))
       ELSE <<txt[1]>> \o stripMoodTags(Tail(txt))

\* The transcription blocks and the turn-complete block of onmessage; awake
\* is isAwake as the closure of the session's startSession holds it.
onmessageTextA(s, m, awake) ==
  LET text == ToLowerCase(m.input)
      wakes == ~awake /\ \E w \in wakeTriggers : Includes(text, w)
      s1 == IF m.input = <<>> THEN s
            ELSE [s EXCEPT !.transcriptionRef.input =
                              IF wakes THEN <<>> ELSE @ \o text,
                           !.isAwake = IF wakes THEN TRUE ELSE @,
                           !.heard = @ \o text]
      mood == firstMood(m.output)
      s2 == IF m.output = <<>> THEN s1
            ELSE [s1 EXCEPT !.transcriptionRef.output = @ \o m.output,
                            !.currentMood =
                               IF mood # 0 THEN ToLowerCase(<<moods[mood]>>)[1]
                                           ELSE @,
                            !.moodSet = @ \/ mood # 0]
      userText == Trim(s2.transcriptionRef.input)
      modelText == Trim(stripMoodTags(Trim(s2.transcriptionRef.output)))
      s3 == IF userText # <<>> /\ awake
            THEN [s2 EXCEPT !.history =
                              Append(@, [speaker |-> "user", text |-> userText])]
            ELSE s2
      s4 == IF modelText # <<>>
            THEN [s3 EXCEPT !.history =
                             Append(@, [speaker |-> "model", text |-> modelText])]
            ELSE s3
  IN IF m.turnComplete
     THEN [s4 EXCEPT !.transcriptionRef = [input |-> <<>>, output |-> <<>>],
                     !.turnBuf = s2.transcriptionRef,
                     !.heard = <<>>, !.moodSet = FALSE]
     ELSE s2

\* onmessage up to the await of decodeAudioData; now is the playback
\* context's currentTime, m.dur the duration of the decoded buffer.  When the
\* payload is malformed (m.bad) the call of decode throws and the handler
\* ends there.
onmessageA(s, m, now, awake) ==
  IF m.audio /\ s.outputAudioCtxRef # Null
     /\ s.outputAudioCtxRef \in s.outOpen
  THEN LET c == s.nChunks + 1
           cursor == IF s.nextStartTimeRef > now THEN s.nextStartTimeRef
                                                 ELSE now
       IN [s EXCEPT !.isSpeaking = TRUE,
                    !.nextStartTimeRef = cursor,
                    !.clock = now,
                    !.decoding =
                       IF m.bad THEN @
                       ELSE @ \cup {[id |-> c, ctx |-> s.outputAudioCtxRef,
                                     rest |-> m, recv |-> now,
                                     awake |-> awake, tainted |-> FALSE]},
                    !.nChunks = IF m.bad THEN @ ELSE c]
  ELSE onmessageRestA(onmessageTextA(s, m, awake), m)

\* A cursor that stays where the chunk started.
advanceCursorA_Stuck(cursor, duration) == cursor

\* nextStartTimeRef.current += audioBuffer.duration
advanceCursorA(cursor, duration) == cursor + duration

\* decodeAudioData resolved: the chunk d is started at the cursor and joins
\* the live set, the cursor moves on by the chunk's duration, then the rest of
\* its message is handled.
decodedA(s, d) ==
  LET s1 == [s EXCEPT !.decoding = @ \ {d},
                      !.playing = IF d.ctx \in s.outOpen THEN @ \cup {d.id}
                                                        ELSE @,
                      !.audible = IF d.ctx \in s.outOpen THEN @ \cup {d.id}
                                                        ELSE @,
                      !.nextStartTimeRef = advanceCursorA(@, d.rest.dur),
                      !.sourcesRef = @ \cup {d.id},
                      !.sched = IF d.tainted THEN @
                                ELSE Append(@, [id |-> d.id,
                                                start |-> s.nextStartTimeRef,
                                                dur |-> d.rest.dur,
                                                recv |-> d.recv]),
                      !.prevStart = s.lastStart,
                      !.lastFresh = ~d.tainted,
                      !.lastStart = s.nextStartTimeRef]
  IN onmessageRestA(onmessageTextA(s1, d.rest, d.awake), d.rest)

\* The 'ended' listener of chunk c.
endedA(s, c) ==
  LET s1 == [s EXCEPT !.playing = @ \ {c}, !.audible = @ \ {c},
                      !.sourcesRef = @ \ {c}] IN
  IF s1.sourcesRef = {} THEN [s1 EXCEPT !.isSpeaking = FALSE] ELSE s1

\* The reconnect that started invocation k, if one did.
LinkA(s, k) ==
  IF \E l \in s.chain : l.att = k
  THEN CHOOSE l \in s.chain : l.att = k
  ELSE [att |-> k, k |-> 0, delay |-> 0]

\* The delay of the timer set when the retry counter has become count.
retryDelayA(count) == RETRY_DELAY_BASE * 2 ^ (count - 1)

onerrorA(s, k, transient) ==
  IF transient /\ s.retryCountRef < MAX_RETRIES_A
  THEN LET id == s.nTimers + 1 IN
       [s EXCEPT !.retryCountRef = @ + 1, !.status = "RECONNECTING",
                 !.timers = {t \in @ : t.id # s.retryTimeoutRef}
                              \cup {[id |-> id, cl |-> s.att[k].cl,
                                     delay |-> retryDelayA(s.retryCountRef + 1),
                                     k |-> LinkA(s, k).k + 1]},
                 !.retryTimeoutRef = id, !.nTimers = id]
  ELSE stopSessionA([s EXCEPT !.status = "ERROR"])

\* status here is the status of the render that created the callbacks.
oncloseA(s, k) ==
  IF s.att[k].cl.status \notin {"ERROR", "RECONNECTING"}
  THEN stopSessionA([s EXCEPT !.status = "IDLE"])
  ELSE s

(***************************************************************************)
(*                     Variant B: src/App.tsx, second App                  *)
(***************************************************************************)
\* One invocation of startSession that passed its guards.  pc:
\*   "mic"     awaiting getUserMedia
\*   "resume1" awaiting inputAudioCtxRef.current.resume()
\*   "resume2" awaiting outputAudioCtxRef.current.resume()
\*   "conn", "open", "errd", "closing", "done" as in variant A
\* rctx: the playback context whose resume() is awaited.
AttemptB(cl) == [pc |-> "mic", cl |-> cl, rctx |-> Null]

FinishedB == [pc |-> "done", cl |-> NoClosure, rctx |-> Null]

InitAppB(online, key) ==
  [ status |-> "IDLE", mode |-> "TRANSLATE", errorMessage |-> "",
    micPermissionDenied |-> FALSE, isSpeaking |-> FALSE, isAwake |-> FALSE,
    volume |-> 0, isOnline |-> online, isPoliteMode |-> FALSE,
    sessionRef |-> Null, isConnectingRef |-> FALSE,
    inputAudioCtxRef |-> Null, outputAudioCtxRef |-> Null,
    nextStartTimeRef |-> 0, sourcesRef |-> {},
    \* the build and the browser
    apiKey |-> key, att |-> <<>>, inOpen |-> {}, outOpen |-> {},
    captures |-> {}, micOn |-> {},
    \* the transcript: the two buffers of the current turn, the two lists of
    \* entries, and the mode each startSession invocation captured
    transcriptionRef |-> [input |-> <<>>, output |-> <<>>],
    translateHistory |-> <<>>, chatHistory |-> <<>>, modeOf |-> <<>>,
    \* history; fragsIn holds the input fragments received since the last
    \* turn-complete, turnIn those of the turn completed last
    lastH |-> "other", offlineInFlight |-> FALSE,
    fragsIn |-> <<>>, turnIn |-> <<>>,
    \* playback: the currentTime of the newest playback context, the chunks
    \* being decoded; history: the sessions that have started a chunk, and
    \* the start of the chunk started last
    clock |-> 0, decoding |-> {}, nChunks |-> 0, startedIn |-> {},
    lastStart |-> [start |-> 0, ctx |-> Null, first |-> FALSE] ]

closeSessionB(s, k) ==
  [s EXCEPT !.att[k].pc = IF @ = "open" THEN "closing" ELSE @]

stopSessionB(s) ==
  LET s1 == IF s.sessionRef # Null
            THEN [closeSessionB(s, s.sessionRef) EXCEPT !.sessionRef = Null]
            ELSE s
      s2 == [s1 EXCEPT !.sourcesRef = {}]
      s3 == IF s2.inputAudioCtxRef # Null
            THEN [s2 EXCEPT !.inOpen = @ \ {s2.inputAudioCtxRef},
                            !.inputAudioCtxRef = Null]
            ELSE s2
      s4 == IF s3.outputAudioCtxRef # Null
            THEN [s3 EXCEPT !.outOpen = @ \ {s3.outputAudioCtxRef},
                            !.outputAudioCtxRef = Null]
            ELSE s3
  IN [s4 EXCEPT !.status = "IDLE", !.isSpeaking = FALSE, !.isAwake = FALSE,
                !.isConnectingRef = FALSE]

\* startSession up to its first await (getUserMedia).  navigator.mediaDevices
\* is taken to exist.
startSessionB(s, cl) ==
  IF ~cl.isOnline
  THEN [s EXCEPT !.errorMessage = "offline", !.status = "ERROR"]
  ELSE IF s.isConnectingRef THEN s
  ELSE [s EXCEPT !.isConnectingRef = TRUE, !.errorMessage = "",
                 !.micPermissionDenied = FALSE, !.status = "CONNECTING",
                 !.att = Append(@, AttemptB(cl)),
                 !.modeOf = Append(@, s.mode)]

\* The catch of getUserMedia that does not release the re-entrancy flag.
micRejectedB_KeepsFlag(s, k, name) ==
  LET s1 == [s EXCEPT !.status = "ERROR", !.att[k] = FinishedB]
  IN IF name \in {"NotAllowedError", "PermissionDeniedError"}
     THEN [s1 EXCEPT !.micPermissionDenied = TRUE, !.errorMessage = "denied"]
     ELSE IF name \in {"NotFoundError", "DevicesNotFoundError"}
          THEN [s1 EXCEPT !.errorMessage = "notfound"]
          ELSE [s1 EXCEPT !.errorMessage = "generic"]

\* getUserMedia rejected with an error of the given name.
micRejectedB(s, k, name) ==
  LET s1 == [s EXCEPT !.isConnectingRef = FALSE, !.status = "ERROR",
                      !.att[k] = FinishedB]
  IN IF name \in {"NotAllowedError", "PermissionDeniedError"}
     THEN [s1 EXCEPT !.micPermissionDenied = TRUE, !.errorMessage = "denied"]
     ELSE IF name \in {"NotFoundError", "DevicesNotFoundError"}
          THEN [s1 EXCEPT !.errorMessage = "notfound"]
          ELSE [s1 EXCEPT !.errorMessage = "generic"]

\* The catch around the second try block: the microphone stream is stopped.
startupErrorB(s, k) ==
  [s EXCEPT !.status = "ERROR", !.errorMessage = "startup",
            !.isConnectingRef = FALSE, !.micOn = @ \ {k},
            !.att[k] = FinishedB]

\* getUserMedia resolved: the key is checked, the two contexts are created
\* and the resume() of the capture context is awaited.
micResolvedB(s, k) ==
  LET s1 == [s EXCEPT !.micOn = @ \cup {k}] IN
  IF ~s.apiKey THEN startupErrorB(s1, k)
  ELSE [s1 EXCEPT !.inputAudioCtxRef = k, !.outputAudioCtxRef = k,
                  !.inOpen = @ \cup {k}, !.outOpen = @ \cup {k},
                  !.clock = 0,
                  !.att[k].pc = "resume1"]

\* The first resume() settled: on a context that was closed meanwhile the
\* promise rejects.  Then outputAudioCtxRef.current.resume() is called: it
\* throws when the ref is null.
resumed1B(s, k) ==
  IF k \notin s.inOpen \/ s.outputAudioCtxRef = Null
  THEN startupErrorB(s, k)
  ELSE [s EXCEPT !.att[k].pc = "resume2",
                 !.att[k].rctx = s.outputAudioCtxRef]

\* The second resume() settled, as the first: ai.live.connect is called.
resumed2B(s, k) ==
  IF s.att[k].rctx \notin s.outOpen
  THEN startupErrorB(s, k)
  ELSE [s EXCEPT !.att[k].pc = "conn", !.att[k].rctx = Null]

\* onopen, and then sessionRef.current = await sessionPromise.  With
\* inputAudioCtxRef.current null, createMediaStreamSource throws inside
\* onopen and the connect promise never resolves: the socket stays open and
\* sessionRef is not set.
onopenB(s, k) ==
  LET s1 == [s EXCEPT !.status = "CONNECTED", !.isAwake = TRUE,
                      !.isConnectingRef = FALSE, !.att[k].pc = "open"]
  IN IF s1.inputAudioCtxRef = Null THEN s1
     ELSE [s1 EXCEPT !.captures =
              @ \cup {[ctx |-> s1.inputAudioCtxRef, sess |-> k]},
                     !.sessionRef = k]

\* The fragments put one after the other, as repeated += builds them up.
RECURSIVE ConcatAll(_)
ConcatAll(frags) ==
  IF frags = <<>> THEN <<>> ELSE Head(frags) \o ConcatAll(Tail(frags))

\* const entry = (s, t) => ({ id, speaker: s, text: t, timestamp, mode })
entryB(speaker, text, mode) ==
  [speaker |-> speaker, text |-> text, mode |-> mode]

\* setter(prev => [...prev, e]) with the setter chosen by the captured mode.
appendEntryB(s, mode, e) ==
  IF mode = "TRANSLATE" THEN [s EXCEPT !.translateHistory = Append(@, e)]
                        ELSE [s EXCEPT !.chatHistory = Append(@, e)]

\* The turn-complete block that leaves the buffers as they are.
turnCompleteB_KeepsBuffers(s, mode) ==
  LET uText == Trim(s.transcriptionRef.input)
      mText == Trim(s.transcriptionRef.output)
      s1 == IF uText # <<>>
            THEN appendEntryB(s, mode, entryB("user", uText, mode))
            ELSE s
  IN IF uText # <<>> /\ mText # <<>>
     THEN appendEntryB(s1, mode, entryB("model", mText, mode))
     ELSE s1

\* The turn-complete block: a user entry when the trimmed input buffer is
\* not empty, then a model entry when the trimmed output buffer is not empty
\* either; the buffers are emptied in every case.
turnCompleteB(s, mode) ==
  LET uText == Trim(s.transcriptionRef.input)
      mText == Trim(s.transcriptionRef.output)
      s1 == IF uText # <<>>
            THEN appendEntryB(s, mode, entryB("user", uText, mode))
            ELSE s
      s2 == IF uText # <<>> /\ mText # <<>>
            THEN appendEntryB(s1, mode, entryB("model", mText, mode))
            ELSE s1
  IN [s2 EXCEPT !.transcriptionRef = [input |-> <<>>, output |-> <<>>]]

\* onmessage of the session of invocation k for a message without inline
\* audio: m.input and m.output are the transcription texts (empty when the
\* message has none).
onmessageB(s, k, m) ==
  LET s1 == [s EXCEPT !.transcriptionRef.input = @ \o m.input,
                      !.transcriptionRef.output = @ \o m.output,
                      !.fragsIn = IF m.input # <<>> THEN Append(@, m.input)
                                                    ELSE @]
      s2 == IF m.turnComplete
            THEN [turnCompleteB(s1, s.modeOf[k]) EXCEPT !.turnIn = s1.fragsIn,
                                                        !.fragsIn = <<>>]
            ELSE s1
  IN IF m.interrupted
     THEN [s2 EXCEPT !.sourcesRef = {}, !.isSpeaking = FALSE,
                     !.nextStartTimeRef = 0]
     ELSE s2

\* onmessage for a message that holds inline audio and nothing else, up to
\* the await of decodeAudioData; now is the playback context's currentTime,
\* dur the duration of the decoded buffer.
onmessageAudioB(s, k, dur, now) ==
  IF s.outputAudioCtxRef # Null /\ s.outputAudioCtxRef \in s.outOpen
  THEN [s EXCEPT !.isSpeaking = TRUE,
                 !.nextStartTimeRef = IF @ > now THEN @ ELSE now,
                 !.clock = now,
                 !.decoding = @ \cup {[id |-> s.nChunks + 1, dur |-> dur,
                                       ctx |-> s.outputAudioCtxRef,
                                       sess |-> k]},
                 !.nChunks = @ + 1]
  ELSE s

\* decodeAudioData resolved: source.start(nextStartTimeRef.current), the
\* cursor moves on by the duration, the source joins the live set.
decodedB(s, d) ==
  [s EXCEPT !.decoding = @ \ {d},
            !.nextStartTimeRef = @ + d.dur,
            !.sourcesRef = @ \cup {d.id},
            !.startedIn = @ \cup {d.sess},
            !.lastStart = [start |-> s.nextStartTimeRef, ctx |-> d.ctx,
                           first |-> d.sess \notin s.startedIn]]

onerrorB(s, k) ==
  stopSessionB([s EXCEPT !.errorMessage = "session", !.status = "ERROR"])

oncloseB(s, k) == stopSessionB(s)

handleOnlineB(s) == [s EXCEPT !.isOnline = TRUE]

handleOfflineB(s) == stopSessionB([s EXCEPT !.isOnline = FALSE])

\* The mode buttons: setMode(m); stopSession().
modeButtonB(s, m) == stopSessionB([s EXCEPT !.mode = m])

\* The footer button: stopSession when CONNECTED, startSession otherwise.
footerButtonB(s) ==
  IF s.status = "CONNECTED" THEN stopSessionB(s)
  ELSE startSessionB(s, ClosureA(s))

(***************************************************************************)
(*              Variant C: src/unnamed/part_000, first App                 *)
(***************************************************************************)
\* One invocation of startSession.  pc:
\*   "key"      awaiting aistudio.hasSelectedApiKey()
\*   "resume1"  awaiting inputAudioCtxRef.current.resume()
\*   "resume2"  awaiting outputAudioCtxRef.current.resume()
\*   "mic"      awaiting getUserMedia
\*   "conn"     ai.live.connect called, socket not open yet
\*   "open", "closing", "errd", "done" as in the other variants
\* mode is the mode of the render that called startSession.
AttemptC(cl, mode) == [pc |-> "key", cl |-> cl, rctx |-> Null, mode |-> mode]

FinishedC == [pc |-> "done", cl |-> NoClosure, rctx |-> Null,
              mode |-> "TRANSLATE"]

\* studio: window.aistudio exists; apiKey: process.env.API_KEY is not empty.
InitAppC(online, key, studio) ==
  [ status |-> "IDLE", mode |-> "TRANSLATE", errorMessage |-> "",
    isSpeaking |-> FALSE, isAwake |-> FALSE, volume |-> 0,
    isOnline |-> online, isPoliteMode |-> FALSE,
    sessionRef |-> Null, isConnectingRef |-> FALSE,
    inputAudioCtxRef |-> Null, outputAudioCtxRef |-> Null,
    nextStartTimeRef |-> 0, sourcesRef |-> {},
    transcriptionRef |-> [input |-> <<>>, output |-> <<>>],
    translateHistory |-> <<>>, chatHistory |-> <<>>,
    \* the build and the browser
    apiKey |-> key, aistudio |-> studio, att |-> <<>>,
    inOpen |-> {}, outOpen |-> {}, micOn |-> {},
    \* history: the buffers as the last turn-complete block found them
    lastH |-> "other", turnBuf |-> [input |-> <<>>, output |-> <<>>] ]

stopSessionC(s) ==
  LET s1 == IF s.sessionRef # Null
            THEN [closeSessionB(s, s.sessionRef) EXCEPT !.sessionRef = Null]
            ELSE s
      s2 == [s1 EXCEPT !.sourcesRef = {}]
      s3 == IF s2.inputAudioCtxRef # Null
            THEN [s2 EXCEPT !.inOpen = @ \ {s2.inputAudioCtxRef},
                            !.inputAudioCtxRef = Null]
            ELSE s2
      s4 == IF s3.outputAudioCtxRef # Null
            THEN [s3 EXCEPT !.outOpen = @ \ {s3.outputAudioCtxRef},
                            !.outputAudioCtxRef = Null]
            ELSE s3
  IN [s4 EXCEPT !.status = "IDLE", !.isSpeaking = FALSE, !.isAwake = FALSE,
                !.isConnectingRef = FALSE]

\* The catch of startSession.
startupErrorC(s, k) ==
  [s EXCEPT !.status = "ERROR", !.errorMessage = "startup",
            !.isConnectingRef = FALSE, !.att[k] = FinishedC]

\* startSession after the key selection: the key is checked, the two
\* contexts are created and the resume() of the capture context is awaited.
keyCheckedC(s, k) ==
  IF ~s.apiKey THEN startupErrorC(s, k)
  ELSE [s EXCEPT !.inputAudioCtxRef = k, !.outputAudioCtxRef = k,
                 !.inOpen = @ \cup {k}, !.outOpen = @ \cup {k},
                 !.att[k].pc = "resume1"]

\* startSession up to its first await: hasSelectedApiKey() where
\* window.aistudio exists, the first resume() elsewhere.
startSessionC(s, cl) ==
  IF ~cl.isOnline
  THEN [s EXCEPT !.errorMessage = "offline", !.status = "ERROR"]
  ELSE IF s.isConnectingRef THEN s
  ELSE LET k == Len(s.att) + 1
           s1 == [s EXCEPT !.isConnectingRef = TRUE, !.errorMessage = "",
                           !.status = "CONNECTING",
                           !.att = Append(@, AttemptC(cl, s.mode))]
       IN IF s.aistudio THEN s1 ELSE keyCheckedC(s1, k)

\* The first resume() settled: on a context that was closed meanwhile the
\* promise rejects.  Then outputAudioCtxRef.current.resume() is called: it
\* throws when the ref is null.
resumed1C(s, k) ==
  IF k \notin s.inOpen \/ s.outputAudioCtxRef = Null
  THEN startupErrorC(s, k)
  ELSE [s EXCEPT !.att[k].pc = "resume2",
                 !.att[k].rctx = s.outputAudioCtxRef]

\* The second resume() settled, as the first: getUserMedia is called.
resumed2C(s, k) ==
  IF s.att[k].rctx \notin s.outOpen
  THEN startupErrorC(s, k)
  ELSE [s EXCEPT !.att[k].pc = "mic", !.att[k].rctx = Null]

\* getUserMedia resolved: ai.live.connect is called.
micResolvedC(s, k) ==
  [s EXCEPT !.micOn = @ \cup {k}, !.att[k].pc = "conn"]

\* onopen, and then sessionRef.current = await sessionPromise.  With
\* inputAudioCtxRef.current null, createMediaStreamSource throws inside
\* onopen and sessionRef is not set.
onopenC(s, k) ==
  LET s1 == [s EXCEPT !.status = "CONNECTED", !.isAwake = TRUE,
                      !.isConnectingRef = FALSE, !.att[k].pc = "open"]
  IN IF s1.inputAudioCtxRef = Null THEN s1
     ELSE [s1 EXCEPT !.sessionRef = k]

appendEntryC(s, mode, e) ==
  IF mode = "TRANSLATE" THEN [s EXCEPT !.translateHistory = Append(@, e)]
                        ELSE [s EXCEPT !.chatHistory = Append(@, e)]

\* The turn-complete block: inside if (uText), the user entry and, when mText
\* is not empty, the model entry; the buffers are emptied in every case.
turnCompleteC(s, mode) ==
  LET uText == Trim(s.transcriptionRef.input)
      mText == Trim(s.transcriptionRef.output)
      s1 == IF uText # <<>>
            THEN appendEntryC(s, mode, entryB("user", uText, mode))
            ELSE s
      s2 == IF uText # <<>> /\ mText # <<>>
            THEN appendEntryC(s1, mode, entryB("model", mText, mode))
            ELSE s1
  IN [s2 EXCEPT !.transcriptionRef = [input |-> <<>>, output |-> <<>>],
                !.turnBuf = s.transcriptionRef]

\* onmessage of the session of invocation k for a message without inline
\* audio.
onmessageC(s, k, m) ==
  LET s1 == [s EXCEPT !.transcriptionRef.input = @ \o m.input,
                      !.transcriptionRef.output = @ \o m.output]
      s2 == IF m.turnComplete THEN turnCompleteC(s1, s.att[k].mode) ELSE s1
  IN IF m.interrupted
     THEN [s2 EXCEPT !.sourcesRef = {}, !.isSpeaking = FALSE,
                     !.nextStartTimeRef = 0]
     ELSE s2

onerrorC(s, k) ==
  stopSessionC([s EXCEPT !.errorMessage = "session", !.status = "ERROR"])

oncloseC(s, k) == stopSessionC(s)

\* The mode buttons: setMode(m); stopSession().
modeButtonC(s, m) == stopSessionC([s EXCEPT !.mode = m])

\* The footer button: stopSession when CONNECTED, startSession otherwise.
footerButtonC(s) ==
  IF s.status = "CONNECTED" THEN stopSessionC(s)
  ELSE startSessionC(s, ClosureA(s))

(***************************************************************************)
(*              Variant D: src/unnamed/part_000, second App                *)
(***************************************************************************)
MAX_RETRIES_D == 2

\* An invocation of startSession awaits the two resume() calls before
\* getUserMedia: pc "resume1", "resume2", "mic", "conn", "open", ...
AttemptD(cl) == [pc |-> "resume1", cl |-> cl, rctx |-> Null]

\* The render state a startSession closure of this App reads.
ClosureD(s) ==
  [isOnline |-> s.isOnline, status |-> s.status, isAwake |-> s.isAwake,
   mode |-> s.mode]

InitAppD(online, key) ==
  [ status |-> "IDLE", mode |-> "TRANSLATE", errorMessage |-> "",
    isSpeaking |-> FALSE, isAwake |-> FALSE, volume |-> 0,
    isOnline |-> online, isPoliteMode |-> FALSE, currentMood |-> "neutral",
    sessionRef |-> Null, isConnectingRef |-> FALSE,
    inputAudioCtxRef |-> Null, outputAudioCtxRef |-> Null,
    nextStartTimeRef |-> 0, sourcesRef |-> {}, retryCountRef |-> 0,
    retryTimeoutRef |-> Null,
    \* the build and the browser; safety holds, for each pending 8 s timer
    \* of a finally block, the status its closure reads
    apiKey |-> key, att |-> <<>>, inOpen |-> {}, outOpen |-> {},
    captures |-> {}, timers |-> {}, nTimers |-> 0, safety |-> {},
    \* the transcript: the two buffers of the current turn and the two lists
    \* of entries
    transcriptionRef |-> [input |-> <<>>, output |-> <<>>],
    translateHistory |-> <<>>, chatHistory |-> <<>>,
    \* history: userStopped, the user has stopped the session (End Session
    \* or a mode button) and has not started one since
    lastH |-> "other", userStopped |-> FALSE ]

closeCtxD(s, which) ==
  IF which = "in"
  THEN IF s.inputAudioCtxRef # Null
       THEN [s EXCEPT !.inOpen = @ \ {s.inputAudioCtxRef},
                      !.inputAudioCtxRef = Null]
       ELSE s
  ELSE IF s.outputAudioCtxRef # Null
       THEN [s EXCEPT !.outOpen = @ \ {s.outputAudioCtxRef},
                      !.outputAudioCtxRef = Null]
       ELSE s

stopSessionD(s) ==
  LET s1 == IF s.retryTimeoutRef # Null
            THEN [s EXCEPT !.timers = {t \in @ : t.id # s.retryTimeoutRef},
                           !.retryTimeoutRef = Null]
            ELSE s
      s2 == IF s1.sessionRef # Null
            THEN [closeSessionB(s1, s1.sessionRef) EXCEPT !.sessionRef = Null]
            ELSE s1
      s3 == [s2 EXCEPT !.sourcesRef = {}]
      s4 == closeCtxD(closeCtxD(s3, "in"), "out")
  IN [s4 EXCEPT !.status = "IDLE", !.isSpeaking = FALSE, !.isAwake = FALSE,
                !.currentMood = "neutral", !.nextStartTimeRef = 0,
                !.isConnectingRef = FALSE]

\* The finally block: setTimeout(() => { if (status === CONNECTING)
\* isConnectingRef.current = false }, 8000), status being the closure's.
finallyD(s, cl) == [s EXCEPT !.safety = @ \cup {cl.status}]

safetyReleaseD(s, st) ==
  IF st = "CONNECTING" THEN [s EXCEPT !.isConnectingRef = FALSE] ELSE s

\* The catch of startSession.
catchD(s, cl) ==
  finallyD([s EXCEPT !.isConnectingRef = FALSE, !.status = "ERROR",
                     !.errorMessage = "start"], cl)

startFailedD(s, k) == [catchD(s, s.att[k].cl) EXCEPT !.att[k] = FinishedB]

\* startSession up to its first await.  Without API_KEY it throws
\* (window.aistudio is taken to be absent).
startSessionD(s, cl) ==
  IF ~cl.isOnline
  THEN [s EXCEPT !.errorMessage = "offline", !.status = "ERROR"]
  ELSE IF s.isConnectingRef THEN s
  ELSE LET s1 == [s EXCEPT !.isConnectingRef = TRUE, !.errorMessage = ""]
           s2 == IF s1.sessionRef # Null THEN stopSessionD(s1) ELSE s1
           k  == Len(s.att) + 1
       IN IF ~s.apiKey THEN catchD(s2, cl)
          ELSE [s2 EXCEPT !.status = IF s2.retryCountRef > 0
                                     THEN "RECONNECTING" ELSE "CONNECTING",
                          !.inputAudioCtxRef = k, !.outputAudioCtxRef = k,
                          !.inOpen = @ \cup {k}, !.outOpen = @ \cup {k},
                          !.att = Append(@, AttemptD(cl))]

resumed1D(s, k) ==
  IF k \notin s.inOpen \/ s.outputAudioCtxRef = Null
  THEN startFailedD(s, k)
  ELSE [s EXCEPT !.att[k].pc = "resume2",
                 !.att[k].rctx = s.outputAudioCtxRef]

\* The second resume() settled: getUserMedia is called.
resumed2D(s, k) ==
  IF s.att[k].rctx \notin s.outOpen
  THEN startFailedD(s, k)
  ELSE [s EXCEPT !.att[k].pc = "mic", !.att[k].rctx = Null]

\* getUserMedia resolved: ai.live.connect is called.
micResolvedD(s, k) == [s EXCEPT !.att[k].pc = "conn"]

\* onopen, then sessionRef.current = await sessionPromise and the finally
\* block.
onopenD(s, k) ==
  LET s1 == [s EXCEPT !.status = "CONNECTED", !.isConnectingRef = FALSE,
                      !.retryCountRef = 0, !.att[k].pc = "open"]
      s2 == IF s1.inputAudioCtxRef = Null THEN s1
            ELSE [s1 EXCEPT !.captures =
                     @ \cup {[ctx |-> s1.inputAudioCtxRef, sess |-> k]}]
  IN finallyD([s2 EXCEPT !.sessionRef = k], s.att[k].cl)

\* A setter chosen by the mode of the current render.
setterD_CurrentMode(s, mode, e) ==
  IF s.mode = "TRANSLATE" THEN [s EXCEPT !.translateHistory = Append(@, e)]
  ELSE [s EXCEPT !.chatHistory = Append(@, e)]

\* const setter = mode === AppMode.TRANSLATE ? setTranslateHistory
\* : setChatHistory; setter(p => [...p, e]), mode being the closure's.
setterD(s, mode, e) ==
  IF mode = "TRANSLATE" THEN [s EXCEPT !.translateHistory = Append(@, e)]
  ELSE [s EXCEPT !.chatHistory = Append(@, e)]

\* onmessage of the session of invocation k from the input transcription on,
\* for a message without inline audio; m.input and m.output are the
\* transcription texts (empty when the message has none).  isAwake and mode
\* are those of the render that created the callbacks.
onmessageD(s, k, m) ==
  LET cl   == s.att[k].cl
      text == ToLowerCase(m.input)
      s1 == IF m.input # <<>>
            THEN [s EXCEPT !.transcriptionRef.input = @ \o text,
                           !.isAwake = IF ~cl.isAwake
                                          /\ Includes(text, <<"salin">>)
                                       THEN TRUE ELSE @]
            ELSE s
      s2 == [s1 EXCEPT !.transcriptionRef.output = @ \o m.output]
      uTxt == Trim(s2.transcriptionRef.input)
      mTxt == Trim(s2.transcriptionRef.output)
      s3 == IF uTxt # <<>> /\ cl.isAwake
            THEN setterD(s2, cl.mode, entryB("user", uTxt, cl.mode))
            ELSE s2
      s4 == IF mTxt # <<>>
            THEN setterD(s3, cl.mode, entryB("model", mTxt, cl.mode))
            ELSE s3
      s5 == IF m.turnComplete
            THEN [s4 EXCEPT !.transcriptionRef = [input |-> <<>>,
                                                  output |-> <<>>]]
            ELSE s2
  IN IF m.interrupted
     THEN [s5 EXCEPT !.sourcesRef = {}, !.nextStartTimeRef = 0,
                     !.isSpeaking = FALSE]
     ELSE s5

\* terminal: the message holds 'entity was not found' or 'api key'; the code
\* then only opens the key selector of window.aistudio, which is taken to be
\* absent, and goes on to the retry test.
onerrorD(s, k, terminal) ==
  LET s1 == [s EXCEPT !.isConnectingRef = FALSE] IN
  IF s1.retryCountRef < MAX_RETRIES_D
  THEN LET id == s1.nTimers + 1 IN
       [s1 EXCEPT !.retryCountRef = @ + 1,
                  !.timers = @ \cup {[id |-> id, cl |-> s.att[k].cl]},
                  !.retryTimeoutRef = id, !.nTimers = id]
  ELSE stopSessionD([s1 EXCEPT !.errorMessage = "session",
                               !.status = "ERROR"])

oncloseD(s, k) ==
  IF s.att[k].cl.status \notin {"ERROR", "RECONNECTING"}
  THEN stopSessionD(s)
  ELSE s

handleToggleSessionD(s) ==
  IF s.status \in {"IDLE", "ERROR"}
  THEN startSessionD([s EXCEPT !.retryCountRef = 0], ClosureD(s))
  ELSE IF s.status = "CONNECTED"
       THEN IF ~s.isAwake THEN [s EXCEPT !.isAwake = TRUE] ELSE stopSessionD(s)
       ELSE s

modeButtonD(s, m) ==
  IF s.mode # m THEN stopSessionD([s EXCEPT !.mode = m]) ELSE s

handleOnlineD(s) == [s EXCEPT !.isOnline = TRUE]

handleOfflineD(s) == stopSessionD([s EXCEPT !.isOnline = FALSE])

(***************************************************************************)
(* Variant A: the events.                                                  *)
(***************************************************************************)
\* The messages: an audio part of duration dur, the interrupted mark, or both.
MsgsA(maxDur) ==
  {m \in [audio : BOOLEAN, bad : {FALSE}, interrupted : BOOLEAN,
          dur : 0..maxDur, input : {<<>>}, output : {<<>>},
          turnComplete : {FALSE}] :
     (m.audio \/ m.interrupted) /\ (m.audio <=> m.dur > 0)}

\* The pieces of the input and of the output transcriptions.
InPieces == {"sa", "SA", "li", Blank}

OutPieces == {"[HAPPY", "[SAD", "]", "po"}

\* The messages with transcription texts: fragments of at most maxIn and
\* maxOut pieces, the turn-complete and interrupted marks, and possibly an
\* audio payload (audios is {FALSE} or BOOLEAN), which is then malformed.
TextMsgsA(maxIn, maxOut, audios) ==
  {m \in [audio : audios, bad : audios, interrupted : BOOLEAN, dur : {0},
          input : TextsOver(InPieces, maxIn),
          output : TextsOver(OutPieces, maxOut), turnComplete : BOOLEAN] :
     m.bad = m.audio}

\* The footer button; it is disabled while CONNECTING or offline.
ClickA(max) ==
  /\ appA.status # "CONNECTING" /\ appA.isOnline
  /\ appA.status \in {"IDLE", "ERROR"} => CanStartA(appA, ClosureA(appA), max)
  /\ LET s0 == IF appA.status \in {"IDLE", "ERROR"}
               THEN [appA EXCEPT !.errRun = 0, !.runTimers = 0,
                                         !.chain = {},
                                         !.runErrors = 0, !.finalErr = FALSE,
                                         !.runFirst = Len(appA.att) + 1]
               ELSE IF appA.isAwake
                    THEN [appA EXCEPT !.chain = {}]
                    ELSE appA
     IN appA' = CommitA(handleToggleSessionA(s0),
                        "other")
  /\ UNCHANGED <<appB, appC, appD, codec, sw>>

TogglePoliteA ==
  /\ appA.status \in {"CONNECTED", "RECONNECTING"}
       => Len(appA.restarts) < MaxRestarts
  /\ appA' = CommitA(togglePoliteModeA(appA), "other")
  /\ UNCHANGED <<appB, appC, appD, codec, sw>>

SwitchModeA ==
  /\ appA.status \in {"CONNECTED", "RECONNECTING"}
       => Len(appA.restarts) < MaxRestarts
  /\ \E newMode \in {"TRANSLATE", "CHAT"} :
       /\ newMode # appA.mode
       /\ appA' = CommitA(switchModeA(appA, newMode), "other")
  /\ UNCHANGED <<appB, appC, appD, codec, sw>>

OnlineA ==
  /\ ~appA.isOnline
  /\ appA' = CommitA(handleOnlineA(appA), "other")
  /\ UNCHANGED <<appB, appC, appD, codec, sw>>

OfflineA ==
  /\ appA.isOnline
  /\ appA' = CommitA(handleOfflineA(appA),
                     IF appA.status = "CONNECTED" THEN "offline_connected"
                                                  ELSE "other")
  /\ UNCHANGED <<appB, appC, appD, codec, sw>>

\* The 100 ms timers fire in the order they were set.
RestartFireA(max) ==
  /\ appA.restarts # <<>>
  /\ CanStartA(appA, Head(appA.restarts).cl, max)
  /\ LET r  == Head(appA.restarts)
         s1 == startSessionA([appA EXCEPT !.restarts = Tail(@),
                                          !.wanted = Tail(@)], r.cl)
     IN appA' = [CommitA(s1, "restart") EXCEPT
                   !.instruction =
                     IF Len(s1.att) > Len(appA.att)
                     THEN [mode |-> r.mode, isPoliteMode |-> r.isPoliteMode]
                     ELSE @]
  /\ UNCHANGED <<appB, appC, appD, codec, sw>>

RetryFireA(max) ==
  /\ \E t \in appA.timers :
       /\ CanStartA(appA, t.cl, max)
       /\ LET s0 == [appA EXCEPT
                       !.timers = @ \ {t},
                       !.chain = IF t.cl.isOnline
                                 THEN @ \cup {[att |-> Len(appA.att) + 1,
                                               k |-> t.k, delay |-> t.delay]}
                                 ELSE @]
          IN appA' = CommitA(startSessionA(s0, t.cl), "retry_start")
  /\ UNCHANGED <<appB, appC, appD, codec, sw>>

MicResolveA ==
  /\ \E k \in 1..Len(appA.att) :
       /\ appA.att[k].pc = "mic"
       /\ appA' = CommitA(micResolvedA(appA, k), "connect")
  /\ UNCHANGED <<appB, appC, appD, codec, sw>>

MicRejectA ==
  /\ \E k \in 1..Len(appA.att) :
       /\ appA.att[k].pc = "mic"
       /\ appA' = CommitA(startFailedA(appA, k), "start_failed")
  /\ UNCHANGED <<appB, appC, appD, codec, sw>>

ConnectRejectA ==
  /\ \E k \in 1..Len(appA.att) :
       /\ appA.att[k].pc = "conn"
       /\ appA' = CommitA(startFailedA(appA, k), "start_failed")
  /\ UNCHANGED <<appB, appC, appD, codec, sw>>

OnOpenA ==
  /\ \E k \in 1..Len(appA.att) :
       /\ appA.att[k].pc = "conn"
       /\ appA' = CommitA(onopenA([appA EXCEPT !.errRun = 0,
                                                       !.runTimers = 0,
                                                       !.chain = {l \in @ : l.att # k},
                                                       !.runErrors = 0], k),
                          "other")
  /\ UNCHANGED <<appB, appC, appD, codec, sw>>

\* The capture callback of a processor wired to an open capture context.
\* The capture c delivers a frame: its context is running or, with late,
\* close() has been called on it and has not completed.
OnAudioProcessA(late) ==
  /\ \E c \in appA.captures, v \in {0, 1} :
       /\ c.ctx \in appA.inOpen \/ late
       /\ LET r == onaudioprocessA(appA, c, v)
          IN appA' = [CommitA(r, IF c.ctx \in appA.inOpen
                                 THEN "other" ELSE "late_capture")
                        EXCEPT !.frameTo = r.frameTo]
  /\ UNCHANGED <<appB, appC, appD, codec, sw>>

\* The close() of the context of a capture completes: the context is
\* 'closed' and the callback fires no more.
InputClosedA ==
  /\ \E c \in appA.captures :
       /\ c.ctx \notin appA.inOpen
       /\ appA' = CommitA([appA EXCEPT !.captures = @ \ {c}], "other")
  /\ UNCHANGED <<appB, appC, appD, codec, sw>>

\* Whether handling m in state s runs the interrupted block at once (the audio
\* block is skipped or absent).
InterruptsNow(s, m) ==
  m.interrupted /\ ~(m.audio /\ s.outputAudioCtxRef # Null
                              /\ s.outputAudioCtxRef \in s.outOpen)

OnMessageA(maxChunks, maxTime, maxDur) ==
  /\ \E k \in 1..Len(appA.att), m \in MsgsA(maxDur),
        now \in appA.clock..maxTime :
       /\ appA.att[k].pc = "open"
       /\ m.audio => appA.nChunks < maxChunks
       /\ appA' = CommitA(onmessageA(appA, m, now, appA.att[k].cl.isAwake),
                          IF InterruptsNow(appA, m) THEN "interrupted"
                                                    ELSE "other")
  /\ UNCHANGED <<appB, appC, appD, codec, sw>>

\* The open session of invocation k delivers a message with transcription
\* texts.
OnTextA(maxIn, maxOut, audios) ==
  /\ \E k \in 1..Len(appA.att), m \in TextMsgsA(maxIn, maxOut, audios),
        now \in appA.clock..MaxTime :
       /\ appA.att[k].pc = "open"
       /\ ~m.audio => now = appA.clock
       /\ Len(appA.heard) + Len(m.input) <= MaxHeard
       /\ Len(appA.transcriptionRef.output) + Len(m.output) <= MaxSaid
       /\ Len(appA.history) < MaxEntriesA
       /\ appA' = CommitA(onmessageA(appA, m, now, appA.att[k].cl.isAwake),
                          IF m.bad /\ ~InterruptsNow(appA, [m EXCEPT
                                                     !.interrupted = TRUE])
                          THEN IF m.turnComplete THEN "bad_audio_turn"
                                                 ELSE "bad_audio"
                          ELSE IF m.turnComplete THEN "turn"
                          ELSE IF m.interrupted THEN "interrupted"
                          ELSE "fragment")
  /\ UNCHANGED <<appB, appC, appD, codec, sw>>

DecodedA ==
  /\ \E d \in appA.decoding :
       appA' = CommitA(decodedA(appA, d),
                       IF d.rest.interrupted THEN "interrupted"
                                             ELSE "scheduled")
  /\ UNCHANGED <<appB, appC, appD, codec, sw>>

EndedA ==
  /\ \E c \in appA.playing :
       appA' = CommitA(endedA(appA, c), "other")
  /\ UNCHANGED <<appB, appC, appD, codec, sw>>

\* The socket of invocation k fails, while connecting or when open; a socket
\* fails once, and its close event follows.
\* A socket fails: the browser fires its error event and then its close
\* event in one task, so onerror and onclose run back to back.
OnErrorA ==
  /\ \E k \in 1..Len(appA.att), transient \in BOOLEAN :
       /\ appA.att[k].pc \in {"conn", "open"}
       /\ LET final == ~transient \/ appA.retryCountRef >= MAX_RETRIES_A
              s0 == [appA EXCEPT
                       !.att[k].pc = "errd",
                       !.errRun = IF transient THEN @ + 1 ELSE 0]
              s1 == oncloseA(onerrorA(s0, k, transient), k)
              s2 == [s1 EXCEPT !.att[k] = Finished,
                               !.runTimers = IF s1.nTimers # s0.nTimers
                                             THEN @ + 1 ELSE @,
                               !.runDelay =
                                 IF s1.nTimers # s0.nTimers
                                 THEN retryDelayA(s0.retryCountRef + 1)
                                 ELSE @,
                               !.runK = IF s1.nTimers # s0.nTimers
                                        THEN LinkA(s0, k).k + 1 ELSE @,
                               !.chain = {l \in @ : l.att # k},
                               !.runErrors = IF s1.status = "ERROR"
                                             THEN @ + 1 ELSE @,
                               !.finalErr = @ \/ final]
          IN appA' = CommitA(s2, IF final THEN "other" ELSE "retry_due")
  /\ UNCHANGED <<appB, appC, appD, codec, sw>>

\* The close event of a socket without an error: after close(), or because
\* the remote end closed an open session.
OnCloseA ==
  /\ \E k \in 1..Len(appA.att) :
       /\ appA.att[k].pc \in {"open", "closing"}
       /\ LET s0 == oncloseA(appA, k)
          IN appA' = CommitA([s0 EXCEPT !.att[k] = Finished],
                             IF appA.att[k].pc = "open" /\ appA.sessionRef = k
                             THEN "remote_close" ELSE "other")
  /\ UNCHANGED <<appB, appC, appD, codec, sw>>

\* The user and the restart timers start at most MaxAttempts attempts; a
\* retry timer may start one more.
NextA ==
  \/ ClickA(MaxAttempts) \/ TogglePoliteA \/ SwitchModeA \/ OnlineA \/ OfflineA
  \/ RestartFireA(MaxAttempts) \/ RetryFireA(MaxAttempts + 1)
  \/ MicResolveA \/ MicRejectA \/ ConnectRejectA \/ OnOpenA
  \/ OnAudioProcessA(FALSE) \/ OnMessageA(MaxChunks, MaxTime, MaxDuration)
  \/ DecodedA \/ EndedA
  \/ OnErrorA \/ OnCloseA

(***************************************************************************)
(*        The audio frame codec: ./services/audio-helpers (App.tsx:5)      *)
(*                                                                         *)
(* A sample is a fixed-point number: the integer n stands for n / 2^16.    *)
(* A blob's data is its base64 text, one number 0..63 per character and    *)
(* Pad for '='.                                                            *)
(***************************************************************************)
Unit == 2 ^ 16

Clamp(n) == IF n > Unit THEN Unit ELSE IF n < -Unit THEN -Unit ELSE n

\* A number stored in an Int16Array: the fraction is dropped and the integer
\* wraps modulo 2^16.
ToInt16(num, den) ==
  LET i == IF num >= 0 THEN num \div den ELSE -((-num) \div den)
      u == ((i % 65536) + 65536) % 65536
  IN IF u >= 32768 THEN u - 65536 ELSE u

\* The same with the scale 32768 (s * 32768 / 2^16 is s / 2): full scale 1.0
\* wraps to -32768.
scaleSample_By32768(s) == ToInt16(Clamp(s), Unit \div 32768)

\* A sample clamped, scaled by 32767 and stored as a 16-bit integer.
scaleSample(s) == ToInt16(Clamp(s) * 32767, Unit)

\* The bytes of a frame, each sample low byte first.
RECURSIVE Int16Bytes(_)
Int16Bytes(frame) ==
  IF frame = <<>> THEN <<>>
  ELSE LET q == scaleSample(Head(frame))
           u == (q + 65536) % 65536
       IN <<u % 256, u \div 256>> \o Int16Bytes(Tail(frame))

Pad == 64

\* base64, three bytes to four characters.
RECURSIVE encode(_)
encode(bytes) ==
  IF bytes = <<>> THEN <<>>
  ELSE IF Len(bytes) = 1
  THEN <<bytes[1] \div 4, (bytes[1] % 4) * 16, Pad, Pad>>
  ELSE IF Len(bytes) = 2
  THEN <<bytes[1] \div 4, (bytes[1] % 4) * 16 + bytes[2] \div 16,
         (bytes[2] % 16) * 4, Pad>>
  ELSE <<bytes[1] \div 4, (bytes[1] % 4) * 16 + bytes[2] \div 16,
         (bytes[2] % 16) * 4 + bytes[3] \div 64, bytes[3] % 64>>
       \o encode(SubSeq(bytes, 4, Len(bytes)))

RECURSIVE decode(_)
decode(base64) ==
  IF Len(base64) < 4 THEN <<>>
  ELSE LET c == base64
           b1 == c[1] * 4 + c[2] \div 16
           b2 == (c[2] % 16) * 16 + c[3] \div 4
           b3 == (c[3] % 4) * 64 + c[4]
       IN (IF c[3] = Pad THEN <<b1>>
           ELSE IF c[4] = Pad THEN <<b1, b2>> ELSE <<b1, b2, b3>>)
          \o decode(SubSeq(base64, 5, Len(base64)))

createBlob(data) ==
  [data |-> encode(Int16Bytes(data)), mimeType |-> "audio/pcm;rate=16000"]

\* The samples of a buffer: 16-bit integers, low byte first, divided by 32768.
RECURSIVE decodeAudioData(_)
decodeAudioData(bytes) ==
  IF Len(bytes) < 2 THEN <<>>
  ELSE LET u == bytes[1] + 256 * bytes[2]
           q == IF u >= 32768 THEN u - 65536 ELSE u
       IN <<q * (Unit \div 32768)>>
          \o decodeAudioData(SubSeq(bytes, 3, Len(bytes)))

NoBlob == [data |-> <<>>, mimeType |-> ""]

\* pc: "captured" a frame is in the capture buffer, "sent" its blob is on
\* the wire, "played" the blob has been decoded.
InitCodec(frame) ==
  [pc |-> "captured", frame |-> frame, blob |-> NoBlob, played |-> <<>>]

MaxFrame == 2
MaxTextD == 1
MaxEntriesD == 2
MaxChunksB == 2
MaxTimeB == 2
MaxDurationB == 2

\* Silence, the smallest steps, a half, and the ends of the range.
Samples == {-Unit, 1 - Unit, -3, -1, 0, 1, Unit \div 2, Unit - 1, Unit}

Frames == UNION {[1..n -> Samples] : n \in 0..MaxFrame}

\* onaudioprocess: the frame is encoded and sent.
OnAudioProcessCodec ==
  /\ codec.pc = "captured"
  /\ codec' = [codec EXCEPT !.pc = "sent", !.blob = createBlob(codec.frame)]
  /\ UNCHANGED <<appA, appB, appC, appD, sw>>

\* onmessage with the blob as its audio payload.
OnMessageCodec ==
  /\ codec.pc = "sent"
  /\ codec' = [codec EXCEPT
                 !.pc = "played",
                 !.played = decodeAudioData(decode(codec.blob.data))]
  /\ UNCHANGED <<appA, appB, appC, appD, sw>>

(***************************************************************************)
(*                     The service worker: src/sw.js                       *)
(*                                                                         *)
(* sw.state is the state of the worker, sw.cache the cache 'salin-v3' as a *)
(* function from request URLs to response bodies, sw.events the fetch      *)
(* events dispatched so far.  A body is the version of the resource the    *)
(* network served.                                                         *)
(***************************************************************************)

MaxFetches == 2
MaxVersion == 1

STATIC_ASSETS == {"./", "./index.html", "./metadata.json"}

\* The requests of the page: the static assets and the application script.
Requests == STATIC_ASSETS \cup {"./index.tsx"}

Bodies == 0..MaxVersion

\* caches.match resolves with undefined when no cache holds the request.
NoResponse == [from |-> "none", body |-> 0]

InitSW ==
  [ state |-> "parsed", cache |-> [u \in {} |-> 0], events |-> <<>>,
    lastH |-> "other" ]

\* The install event: waitUntil(caches.open(CACHE_NAME).then(addAll)).
installSW(s) == [s EXCEPT !.state = "installing", !.lastH = "install"]

\* cache.addAll(STATIC_ASSETS) settles: with all three responses stored, or
\* rejected with nothing stored, and then the installation fails.
addAllSW(s, ok, bodies) ==
  IF ok THEN [s EXCEPT !.cache = bodies, !.state = "activated",
                       !.lastH = "addAll"]
  ELSE [s EXCEPT !.state = "redundant", !.lastH = "addAll"]

\* The fetch event: respondWith(fetch(event.request).catch(...)) starts the
\* network fetch.
onfetchSW(s, url) ==
  [s EXCEPT !.events = Append(@, [url |-> url, pc |-> "network",
                                  netOk |-> FALSE, netBody |-> 0,
                                  matched |-> FALSE,
                                  response |-> NoResponse]),
            !.lastH = "fetch"]

\* A handler that answers from the cache whenever the cache holds the request.
respondWithSW_CacheFirst(s, i, ok, body) ==
  LET url == s.events[i].url
  IN IF url \in DOMAIN s.cache
     THEN [s EXCEPT !.events[i].pc = "done", !.events[i].netOk = ok,
                    !.events[i].netBody = body, !.events[i].matched = TRUE,
                    !.events[i].response =
                       [from |-> "cache", body |-> s.cache[url]],
                    !.lastH = "respond"]
     ELSE [s EXCEPT !.events[i].pc = "done", !.events[i].netOk = ok,
                    !.events[i].netBody = body,
                    !.events[i].response =
                       IF ok THEN [from |-> "network", body |-> body]
                       ELSE NoResponse,
                    !.lastH = "respond"]

\* The network fetch of event i settles: fulfilled with body, the response
\* is the network's; rejected, the catch returns caches.match(event.request).
respondWithSW(s, i, ok, body) ==
  LET url == s.events[i].url
      s1 == [s EXCEPT !.events[i].pc = "done", !.events[i].netOk = ok,
                      !.events[i].netBody = body, !.lastH = "respond"]
  IN IF ok
     THEN [s1 EXCEPT !.events[i].response =
                        [from |-> "network", body |-> body]]
     ELSE [s1 EXCEPT !.events[i].matched = TRUE,
                     !.events[i].response =
                        IF url \in DOMAIN s.cache
                        THEN [from |-> "cache", body |-> s.cache[url]]
                        ELSE NoResponse]

InstallSW ==
  /\ sw.state = "parsed"
  /\ sw' = installSW(sw)
  /\ UNCHANGED <<appA, appB, appC, appD, codec>>

AddAllSW ==
  /\ sw.state = "installing"
  /\ \E ok \in BOOLEAN, bodies \in [STATIC_ASSETS -> Bodies] :
       sw' = addAllSW(sw, ok, bodies)
  /\ UNCHANGED <<appA, appB, appC, appD, codec>>

\* Fetch events are dispatched to the active worker only.
FetchSW ==
  /\ sw.state = "activated"
  /\ Len(sw.events) < MaxFetches
  /\ \E url \in Requests : sw' = onfetchSW(sw, url)
  /\ UNCHANGED <<appA, appB, appC, appD, codec>>

RespondSW ==
  /\ \E i \in 1..Len(sw.events), ok \in BOOLEAN, body \in Bodies :
       /\ sw.events[i].pc = "network"
       /\ sw' = respondWithSW(sw, i, ok, body)
  /\ UNCHANGED <<appA, appB, appC, appD, codec>>

InitSWLoop ==
  /\ appA = InitAppA(TRUE)
  /\ appB = InitAppB(TRUE, TRUE)
  /\ appC = InitAppC(TRUE, TRUE, FALSE)
  /\ appD = InitAppD(TRUE, TRUE)
  /\ codec = InitCodec(<<>>)
  /\ sw = InitSW

NextSW == InstallSW \/ AddAllSW \/ FetchSW \/ RespondSW

SpecSW == InitSWLoop /\ [][NextSW]_vars

\* The codec on its own.
InitCodecLoop ==
  /\ appA = InitAppA(TRUE)
  /\ appB = InitAppB(TRUE, TRUE)
  /\ appC = InitAppC(TRUE, TRUE, FALSE)
  /\ appD = InitAppD(TRUE, TRUE)
  /\ \E frame \in Frames : codec = InitCodec(frame)
  /\ sw = InitSW

NextCodec == OnAudioProcessCodec \/ OnMessageCodec

SpecCodec == InitCodecLoop /\ [][NextCodec]_vars

\* Each specification runs one variant; the other two stay as constructed.
InitA ==
  /\ \E online \in BOOLEAN : appA = InitAppA(online)
  /\ appB = InitAppB(TRUE, TRUE)
  /\ appC = InitAppC(TRUE, TRUE, FALSE)
  /\ appD = InitAppD(TRUE, TRUE)
  /\ codec = InitCodec(<<>>)
  /\ sw = InitSW

InitB ==
  /\ appA = InitAppA(TRUE)
  /\ \E online \in BOOLEAN, key \in BOOLEAN : appB = InitAppB(online, key)
  /\ appC = InitAppC(TRUE, TRUE, FALSE)
  /\ appD = InitAppD(TRUE, TRUE)
  /\ codec = InitCodec(<<>>)
  /\ sw = InitSW

InitC ==
  /\ appA = InitAppA(TRUE)
  /\ appB = InitAppB(TRUE, TRUE)
  /\ \E online \in BOOLEAN, key \in BOOLEAN, studio \in BOOLEAN :
       appC = InitAppC(online, key, studio)
  /\ appD = InitAppD(TRUE, TRUE)
  /\ codec = InitCodec(<<>>)
  /\ sw = InitSW

InitD ==
  /\ appA = InitAppA(TRUE)
  /\ appB = InitAppB(TRUE, TRUE)
  /\ appC = InitAppC(TRUE, TRUE, FALSE)
  /\ \E online \in BOOLEAN, key \in BOOLEAN : appD = InitAppD(online, key)
  /\ codec = InitCodec(<<>>)
  /\ sw = InitSW

SpecA == InitA /\ [][NextA]_vars

(***************************************************************************)
(* Variant B: the events.                                                  *)
(***************************************************************************)
InFlightB == {k \in 1..Len(appB.att) :
                appB.att[k].pc \in {"mic", "resume1", "resume2", "conn"}}

LiveB == {k \in 1..Len(appB.att) : appB.att[k].pc = "open"}

CommitB(new, h) == [new EXCEPT !.lastH = h]

\* The footer button; it is disabled while CONNECTING.
FooterButtonB ==
  /\ appB.status # "CONNECTING"
  /\ appB.status # "CONNECTED" /\ appB.isOnline => Len(appB.att) < MaxAttempts
  /\ LET starts == appB.status # "CONNECTED"
         s0 == IF starts THEN [appB EXCEPT !.offlineInFlight = FALSE] ELSE appB
     IN appB' = CommitB(footerButtonB(s0),
                        IF starts /\ appB.isOnline THEN "start" ELSE "other")
  /\ UNCHANGED <<appA, appC, appD, codec, sw>>

\* startSession is called a second time right after the first, by the click
\* handler of the same render (the button is not disabled yet).
StartAgainB ==
  /\ appB.lastH = "start"
  /\ Len(appB.att) < MaxAttempts
  /\ appB' = CommitB(startSessionB(appB, [isOnline |-> TRUE,
                                          status |-> "IDLE",
                                          isAwake |-> appB.isAwake]),
                     "start_again")
  /\ UNCHANGED <<appA, appC, appD, codec, sw>>

ModeButtonB ==
  /\ \E m \in {"TRANSLATE", "CHAT"} :
       appB' = CommitB(modeButtonB(appB, m), "other")
  /\ UNCHANGED <<appA, appC, appD, codec, sw>>

OnlineB ==
  /\ ~appB.isOnline
  /\ appB' = CommitB(handleOnlineB(appB), "other")
  /\ UNCHANGED <<appA, appC, appD, codec, sw>>

OfflineB ==
  /\ appB.isOnline
  /\ LET s0 == [appB EXCEPT !.offlineInFlight =
                   @ \/ (appB.status = "CONNECTING" /\ InFlightB # {})]
     IN appB' = CommitB(handleOfflineB(s0), "other")
  /\ UNCHANGED <<appA, appC, appD, codec, sw>>

MicResolveB ==
  /\ \E k \in 1..Len(appB.att) :
       /\ appB.att[k].pc = "mic"
       /\ appB' = CommitB(micResolvedB(appB, k), "other")
  /\ UNCHANGED <<appA, appC, appD, codec, sw>>

MicErrorNames ==
  {"NotAllowedError", "PermissionDeniedError", "NotFoundError",
   "DevicesNotFoundError", "AbortError"}

MicRejectB ==
  /\ \E k \in 1..Len(appB.att), name \in MicErrorNames :
       /\ appB.att[k].pc = "mic"
       /\ appB' = CommitB(micRejectedB(appB, k, name), name)
  /\ UNCHANGED <<appA, appC, appD, codec, sw>>

Resumed1B ==
  /\ \E k \in 1..Len(appB.att) :
       /\ appB.att[k].pc = "resume1"
       /\ appB' = CommitB(resumed1B(appB, k), "other")
  /\ UNCHANGED <<appA, appC, appD, codec, sw>>

Resumed2B ==
  /\ \E k \in 1..Len(appB.att) :
       /\ appB.att[k].pc = "resume2"
       /\ appB' = CommitB(resumed2B(appB, k), "connect")
  /\ UNCHANGED <<appA, appC, appD, codec, sw>>

ConnectRejectB ==
  /\ \E k \in 1..Len(appB.att) :
       /\ appB.att[k].pc = "conn"
       /\ appB' = CommitB(startupErrorB(appB, k), "other")
  /\ UNCHANGED <<appA, appC, appD, codec, sw>>

OnOpenB ==
  /\ \E k \in 1..Len(appB.att) :
       /\ appB.att[k].pc = "conn"
       /\ appB' = CommitB(onopenB(appB, k), "other")
  /\ UNCHANGED <<appA, appC, appD, codec, sw>>

OnErrorB ==
  /\ \E k \in 1..Len(appB.att) :
       /\ appB.att[k].pc \in {"conn", "open"}
       /\ LET s0 == [appB EXCEPT !.att[k].pc = "errd"]
              s1 == oncloseB(onerrorB(s0, k), k)
          IN appB' = CommitB([s1 EXCEPT !.att[k] = FinishedB], "other")
  /\ UNCHANGED <<appA, appC, appD, codec, sw>>

OnCloseB ==
  /\ \E k \in 1..Len(appB.att) :
       /\ appB.att[k].pc \in {"open", "closing"}
       /\ appB' = CommitB([oncloseB(appB, k) EXCEPT !.att[k] = FinishedB],
                          "other")
  /\ UNCHANGED <<appA, appC, appD, codec, sw>>

\* The texts of at most n characters.
TextsUpTo(n) ==
  UNION {[1..len -> {"a", Blank}] : len \in 0..n}

MsgsB ==
  [input : TextsUpTo(MaxFragment), output : TextsUpTo(1),
   turnComplete : BOOLEAN, interrupted : BOOLEAN]

\* The open session of invocation k delivers a message.
OnMessageB ==
  /\ \E k \in LiveB, m \in MsgsB :
       /\ Len(appB.transcriptionRef.input) + Len(m.input) <= MaxText
       /\ Len(appB.transcriptionRef.output) + Len(m.output) <= 1
       /\ m.turnComplete =>
            Len(appB.translateHistory) + Len(appB.chatHistory) < MaxEntries
       /\ appB' = CommitB(onmessageB(appB, k, m),
                          IF m.turnComplete THEN "turn" ELSE "other")
  /\ UNCHANGED <<appA, appC, appD, codec, sw>>

\* The open session of invocation k delivers an audio chunk.
OnAudioB ==
  /\ \E k \in LiveB, dur \in 1..MaxDurationB, now \in appB.clock..MaxTimeB :
       /\ appB.nChunks < MaxChunksB
       /\ appB' = CommitB(onmessageAudioB(appB, k, dur, now), "other")
  /\ UNCHANGED <<appA, appC, appD, codec, sw>>

DecodedB ==
  /\ \E d \in appB.decoding :
       appB' = CommitB(decodedB(appB, d), "scheduled")
  /\ UNCHANGED <<appA, appC, appD, codec, sw>>

\* Sessions of the second App, one after the other, and their audio.
NextBPlay ==
  \/ FooterButtonB \/ MicResolveB \/ Resumed1B \/ Resumed2B
  \/ OnOpenB \/ OnAudioB \/ DecodedB

SpecBPlay == InitB /\ [][NextBPlay]_vars

NextB ==
  \/ FooterButtonB \/ StartAgainB \/ ModeButtonB \/ OnlineB \/ OfflineB
  \/ MicResolveB \/ MicRejectB \/ Resumed1B \/ Resumed2B \/ ConnectRejectB
  \/ OnOpenB \/ OnErrorB \/ OnCloseB

SpecB == InitB /\ [][NextB]_vars

\* A session of the second App and its messages.
NextBTurn ==
  \/ FooterButtonB \/ MicResolveB \/ Resumed1B \/ Resumed2B
  \/ OnOpenB \/ OnMessageB

SpecBTurn == InitB /\ [][NextBTurn]_vars

(***************************************************************************)
(*                         Variant C: the events                           *)
(***************************************************************************)
CommitC(new, h) == [new EXCEPT !.lastH = h]

\* The footer button; it is disabled while CONNECTING.
FooterButtonC ==
  /\ appC.status # "CONNECTING"
  /\ appC.status # "CONNECTED" /\ appC.isOnline => Len(appC.att) < MaxAttemptsC
  /\ appC' = CommitC(footerButtonC(appC), "other")
  /\ UNCHANGED <<appA, appB, appD, codec, sw>>

ModeButtonC ==
  /\ \E m \in {"TRANSLATE", "CHAT"} :
       appC' = CommitC(modeButtonC(appC, m), "other")
  /\ UNCHANGED <<appA, appB, appD, codec, sw>>

KeyCheckedC ==
  /\ \E k \in 1..Len(appC.att) :
       /\ appC.att[k].pc = "key"
       /\ appC' = CommitC(keyCheckedC(appC, k), "other")
  /\ UNCHANGED <<appA, appB, appD, codec, sw>>

Resumed1C ==
  /\ \E k \in 1..Len(appC.att) :
       /\ appC.att[k].pc = "resume1"
       /\ appC' = CommitC(resumed1C(appC, k), "other")
  /\ UNCHANGED <<appA, appB, appD, codec, sw>>

Resumed2C ==
  /\ \E k \in 1..Len(appC.att) :
       /\ appC.att[k].pc = "resume2"
       /\ appC' = CommitC(resumed2C(appC, k), "other")
  /\ UNCHANGED <<appA, appB, appD, codec, sw>>

MicResolveC ==
  /\ \E k \in 1..Len(appC.att) :
       /\ appC.att[k].pc = "mic"
       /\ appC' = CommitC(micResolvedC(appC, k), "other")
  /\ UNCHANGED <<appA, appB, appD, codec, sw>>

MicRejectC ==
  /\ \E k \in 1..Len(appC.att) :
       /\ appC.att[k].pc = "mic"
       /\ appC' = CommitC(startupErrorC(appC, k), "other")
  /\ UNCHANGED <<appA, appB, appD, codec, sw>>

OnOpenC ==
  /\ \E k \in 1..Len(appC.att) :
       /\ appC.att[k].pc = "conn"
       /\ appC' = CommitC(onopenC(appC, k), "other")
  /\ UNCHANGED <<appA, appB, appD, codec, sw>>

MsgsC ==
  [input : TextsUpTo(1), output : TextsUpTo(MaxFragment),
   turnComplete : BOOLEAN, interrupted : BOOLEAN]

\* The open session of invocation k delivers a message.
OnMessageC ==
  /\ \E k \in 1..Len(appC.att), m \in MsgsC :
       /\ appC.att[k].pc = "open"
       /\ Len(appC.transcriptionRef.input) + Len(m.input) <= 1
       /\ Len(appC.transcriptionRef.output) + Len(m.output) <= MaxText
       /\ m.turnComplete =>
            Len(appC.translateHistory) + Len(appC.chatHistory) < MaxEntries
       /\ appC' = CommitC(onmessageC(appC, k, m),
                          IF m.turnComplete THEN "turn" ELSE "other")
  /\ UNCHANGED <<appA, appB, appD, codec, sw>>

\* A socket fails: onerror and onclose run back to back.
OnErrorC ==
  /\ \E k \in 1..Len(appC.att) :
       /\ appC.att[k].pc \in {"conn", "open"}
       /\ LET s0 == [appC EXCEPT !.att[k].pc = "errd"]
              s1 == oncloseC(onerrorC(s0, k), k)
          IN appC' = CommitC([s1 EXCEPT !.att[k] = FinishedC], "other")
  /\ UNCHANGED <<appA, appB, appD, codec, sw>>

OnCloseC ==
  /\ \E k \in 1..Len(appC.att) :
       /\ appC.att[k].pc \in {"open", "closing"}
       /\ appC' = CommitC([oncloseC(appC, k) EXCEPT !.att[k] = FinishedC],
                          "other")
  /\ UNCHANGED <<appA, appB, appD, codec, sw>>

NextC ==
  \/ FooterButtonC \/ ModeButtonC \/ KeyCheckedC \/ Resumed1C \/ Resumed2C
  \/ MicResolveC \/ MicRejectC \/ OnOpenC \/ OnMessageC
  \/ OnErrorC \/ OnCloseC

SpecC == InitC /\ [][NextC]_vars

(***************************************************************************)
(* Variant D: the events.                                                  *)
(***************************************************************************)
LiveD == {k \in 1..Len(appD.att) : appD.att[k].pc = "open"}

CommitD(new, h) == [new EXCEPT !.lastH = h]

\* The footer button; it is disabled while CONNECTING or offline.
ClickD ==
  /\ appD.status # "CONNECTING" /\ appD.isOnline
  /\ appD.status \in {"IDLE", "ERROR"} => Len(appD.att) < MaxAttemptsD
  /\ LET s0 == IF appD.status \in {"IDLE", "ERROR"}
               THEN [appD EXCEPT !.userStopped = FALSE]
               ELSE IF appD.status = "CONNECTED" /\ appD.isAwake
                    THEN [appD EXCEPT !.userStopped = TRUE]
                    ELSE appD
     IN appD' = CommitD(handleToggleSessionD(s0), "other")
  /\ UNCHANGED <<appA, appB, appC, codec, sw>>

ModeButtonD ==
  /\ \E m \in {"TRANSLATE", "CHAT"} :
       /\ m # appD.mode
       /\ appD' = CommitD(modeButtonD([appD EXCEPT !.userStopped = TRUE], m),
                          "other")
  /\ UNCHANGED <<appA, appB, appC, codec, sw>>

OnlineD ==
  /\ ~appD.isOnline
  /\ appD' = CommitD(handleOnlineD(appD), "other")
  /\ UNCHANGED <<appA, appB, appC, codec, sw>>

OfflineD ==
  /\ appD.isOnline
  /\ appD' = CommitD(handleOfflineD(appD), "other")
  /\ UNCHANGED <<appA, appB, appC, codec, sw>>

RetryFireD ==
  /\ \E t \in appD.timers :
       /\ t.cl.isOnline => Len(appD.att) < MaxAttemptsD
       /\ appD' = CommitD(startSessionD([appD EXCEPT !.timers = @ \ {t}],
                                        t.cl),
                          "retry_start")
  /\ UNCHANGED <<appA, appB, appC, codec, sw>>

SafetyTimerD ==
  /\ \E st \in appD.safety :
       appD' = CommitD(safetyReleaseD([appD EXCEPT !.safety = @ \ {st}], st),
                       "other")
  /\ UNCHANGED <<appA, appB, appC, codec, sw>>

Resumed1D ==
  /\ \E k \in 1..Len(appD.att) :
       /\ appD.att[k].pc = "resume1"
       /\ appD' = CommitD(resumed1D(appD, k), "other")
  /\ UNCHANGED <<appA, appB, appC, codec, sw>>

Resumed2D ==
  /\ \E k \in 1..Len(appD.att) :
       /\ appD.att[k].pc = "resume2"
       /\ appD' = CommitD(resumed2D(appD, k), "other")
  /\ UNCHANGED <<appA, appB, appC, codec, sw>>

MicResolveD ==
  /\ \E k \in 1..Len(appD.att) :
       /\ appD.att[k].pc = "mic"
       /\ appD' = CommitD(micResolvedD(appD, k), "other")
  /\ UNCHANGED <<appA, appB, appC, codec, sw>>

MicRejectD ==
  /\ \E k \in 1..Len(appD.att) :
       /\ appD.att[k].pc = "mic"
       /\ appD' = CommitD(startFailedD(appD, k), "other")
  /\ UNCHANGED <<appA, appB, appC, codec, sw>>

ConnectRejectD ==
  /\ \E k \in 1..Len(appD.att) :
       /\ appD.att[k].pc = "conn"
       /\ appD' = CommitD(startFailedD(appD, k), "other")
  /\ UNCHANGED <<appA, appB, appC, codec, sw>>

OnOpenD ==
  /\ \E k \in 1..Len(appD.att) :
       /\ appD.att[k].pc = "conn"
       /\ appD' = CommitD(onopenD(appD, k), "other")
  /\ UNCHANGED <<appA, appB, appC, codec, sw>>

OnErrorD ==
  /\ \E k \in 1..Len(appD.att), terminal \in BOOLEAN :
       /\ appD.att[k].pc \in {"conn", "open"}
       /\ LET s0 == [appD EXCEPT !.att[k].pc = "errd"]
              s1 == oncloseD(onerrorD(s0, k, terminal), k)
          IN appD' = CommitD([s1 EXCEPT !.att[k] = FinishedB],
                             IF terminal THEN "terminal_error" ELSE "other")
  /\ UNCHANGED <<appA, appB, appC, codec, sw>>

OnCloseD ==
  /\ \E k \in 1..Len(appD.att) :
       /\ appD.att[k].pc \in {"open", "closing"}
       /\ appD' = CommitD([oncloseD(appD, k) EXCEPT !.att[k] = FinishedB],
                          "other")
  /\ UNCHANGED <<appA, appB, appC, codec, sw>>

MsgsD ==
  [input : TextsOver({"salin", Blank}, 1), output : TextsOver({"a", Blank}, 1),
   turnComplete : BOOLEAN, interrupted : BOOLEAN]

\* The open session of invocation k delivers a message.
OnMessageD ==
  /\ \E k \in LiveD, m \in MsgsD :
       /\ Len(appD.transcriptionRef.input) + Len(m.input) <= MaxTextD
       /\ Len(appD.transcriptionRef.output) + Len(m.output) <= MaxTextD
       /\ m.turnComplete =>
            Len(appD.translateHistory) + Len(appD.chatHistory) < MaxEntriesD
       /\ appD' = CommitD(onmessageD(appD, k, m),
                          IF ~m.turnComplete THEN "other"
                          ELSE IF appD.att[k].cl.mode = appD.mode
                               THEN "turn" ELSE "turn_other_mode")
  /\ UNCHANGED <<appA, appB, appC, codec, sw>>

\* Sessions of the second App of part_000, the mode buttons and the turns.
NextDTurn ==
  \/ ClickD \/ ModeButtonD \/ Resumed1D \/ Resumed2D \/ MicResolveD
  \/ OnOpenD \/ OnMessageD

SpecDTurn == InitD /\ [][NextDTurn]_vars

NextD ==
  \/ ClickD \/ ModeButtonD \/ OnlineD \/ OfflineD \/ RetryFireD
  \/ SafetyTimerD \/ Resumed1D \/ Resumed2D \/ MicResolveD \/ MicRejectD
  \/ ConnectRejectD \/ OnOpenD \/ OnErrorD \/ OnCloseD

SpecD == InitD /\ [][NextD]_vars

\* The retry path alone: one user, one network, sockets that fail.
NextARetry ==
  \/ ClickA(MaxRetryAttempts) \/ RetryFireA(MaxRetryAttempts)
  \/ MicResolveA \/ MicRejectA \/ OnOpenA \/ OnErrorA \/ OnCloseA

SpecARetry == InitA /\ [][NextARetry]_vars

\* Starts, retries and the network events, for runs of three attempts.
NextAOffline ==
  \/ ClickA(MaxOfflineAttempts) \/ RetryFireA(MaxOfflineAttempts)
  \/ MicResolveA \/ MicRejectA \/ OnOpenA \/ OnErrorA \/ OnCloseA
  \/ OnlineA \/ OfflineA

SpecAOffline == InitA /\ [][NextAOffline]_vars

\* One session and its playback: up to three chunks of one or two time units,
\* interruptions, the end of chunks, and the user's stop.
NextAPlay ==
  \/ ClickA(1) \/ MicResolveA \/ OnOpenA
  \/ OnMessageA(MaxPlayChunks, MaxPlayTime, MaxPlayDuration)
  \/ DecodedA \/ EndedA

SpecAPlay == InitA /\ [][NextAPlay]_vars

\* A session, its capture callbacks and the end of its capture context.
NextACapture ==
  \/ ClickA(MaxAttempts) \/ OnlineA \/ OfflineA \/ MicResolveA \/ OnOpenA
  \/ OnAudioProcessA(TRUE) \/ InputClosedA

SpecACapture == InitA /\ [][NextACapture]_vars

\* One session and what the user says: the wake button, input fragments
\* and turns, with and without a malformed audio payload in the same message.
NextAWake ==
  \/ ClickA(1) \/ MicResolveA \/ OnOpenA
  \/ OnTextA(MaxHeardFragment, 0, BOOLEAN)

SpecAWake == InitA /\ [][NextAWake]_vars

\* One session and what the model says: output fragments and turns.
NextAMood ==
  \/ ClickA(1) \/ MicResolveA \/ OnOpenA
  \/ OnTextA(0, MaxSaidFragment, {FALSE})

SpecAMood == InitA /\ [][NextAMood]_vars

(***************************************************************************)
(* Variant A: properties.                                                  *)
(***************************************************************************)
LiveA == {k \in 1..Len(appA.att) : appA.att[k].pc = "open"}

\* C1: after an onerror that may not retry (a non-retryable error, or a
\* retryable one with the retry counter at MAX_RETRIES) the status is ERROR,
\* and it stays ERROR until the next user-initiated start.
C1_FinalErrorShowsError == appA.finalErr => appA.status = "ERROR"

\* C2: more than MAX_RETRIES transient errors in a row (no onopen, no user
\* start between them) set exactly MAX_RETRIES retry timers and reach ERROR
\* exactly once.
C2_RetryBound ==
  appA.errRun > MAX_RETRIES_A
    => appA.runTimers = MAX_RETRIES_A /\ appA.runErrors = 1

\* C4: when a retry timer has invoked startSession, the contexts and the
\* session of the previous attempt are closed: at most one capture context,
\* one playback context and one session are open.
C4_RetryStartsFromCleanSlate ==
  appA.lastH = "retry_start"
    => /\ Cardinality(appA.inOpen) <= 1
       /\ Cardinality(appA.outOpen) <= 1
       /\ Cardinality(LiveA) <= 1

\* C5: an offline event received while CONNECTED leaves the status IDLE, the
\* session handle null, the live chunk set empty, no retry timer pending and
\* no audio context of a start attempt of that run open.
C5_OfflineReleasesEverything ==
  appA.lastH = "offline_connected"
    => /\ appA.status = "IDLE"
       /\ appA.sessionRef = Null
       /\ appA.sourcesRef = {}
       /\ appA.timers = {}
       /\ \A k \in appA.inOpen \cup appA.outOpen : k < appA.runFirst

\* C7: ai.live.connect is never called while the network is offline.
C7_NoConnectWhileOffline == appA.lastH = "connect" => appA.isOnline

\* C8: from any state, stopSession leaves status IDLE, speaking false, awake
\* false, volume 0 and mood neutral.
C8_StopResetsDerivedFlags ==
  LET s == stopSessionA(appA) IN
  /\ s.status = "IDLE"
  /\ ~s.isSpeaking
  /\ ~s.isAwake
  /\ s.volume = 0
  /\ s.currentMood = "neutral"

\* C9: stopSession is idempotent: a second call right after the first changes
\* nothing and calls close() on no session and no context.
C9_StopIdempotent ==
  LET once  == stopSessionA(appA)
      twice == stopSessionA([once EXCEPT !.closeCalls = 0])
  IN /\ twice.closeCalls = 0
     /\ [twice EXCEPT !.closeCalls = once.closeCalls] = once

\* A state in which the first stopSession has a retry timer or a session, two
\* contexts and a live chunk to release.
C9_Witness ==
  /\ appA.sessionRef # Null /\ appA.att[appA.sessionRef].pc = "open"
  /\ appA.inputAudioCtxRef \in appA.inOpen
  /\ appA.outputAudioCtxRef \in appA.outOpen
  /\ appA.sourcesRef # {}
  /\ stopSessionA(appA).closeCalls = 3

\* C11: after a transient onerror with retry budget left, and the close event
\* of the failed socket, the retry timer is pending: it will fire and start a
\* new attempt.
C11_RetryTimerSurvivesClose ==
  appA.lastH = "retry_due"
    => \E t \in appA.timers : t.id = appA.retryTimeoutRef

\* C13: the status changes along the edges of the state machine only; in
\* particular (the part stated here) CONNECTED is entered from CONNECTING only.
C13_ConnectedOnlyFromConnecting ==
  [][appA'.status = "CONNECTED" /\ appA.status # "CONNECTED"
       => appA.status = "CONNECTING"]_vars

\* C15: when startSession fails after its audio contexts were created (its
\* getUserMedia or its connect call rejects), both contexts of that attempt
\* are closed by the time the status is ERROR.
C15_FailedStartReleasesContexts ==
  [][appA'.lastH = "start_failed"
       => \A k \in 1..Len(appA.att) :
            appA.att[k].pc \in {"mic", "conn"} /\ appA'.att[k].pc = "done"
              => k \notin appA'.inOpen /\ k \notin appA'.outOpen]_vars

(***************************************************************************)
(* Variant B: properties.                                                  *)
(***************************************************************************)
\* C3: when startSession is called while an earlier attempt has not resolved,
\* one ai.live.connect call is made and one session is live, not two: at most
\* one attempt has called connect or holds an open session.
C3_OneConnectOneSession ==
  Cardinality({k \in 1..Len(appB.att) :
                 appB.att[k].pc \in {"conn", "open"}}) <= 1

\* C14: when getUserMedia rejects, the status becomes ERROR, the re-entrancy
\* flag is released, no audio context is created, no attempt reaches connect
\* or a session through it, and the message is chosen by the error name.
C14_MicRejectionCategorised ==
  [][appB'.lastH \in MicErrorNames
       => /\ appB'.status = "ERROR"
          /\ ~appB'.isConnectingRef
          /\ appB'.inOpen = appB.inOpen /\ appB'.outOpen = appB.outOpen
          /\ appB'.sessionRef = appB.sessionRef
          /\ \A k \in 1..Len(appB'.att) :
                appB'.att[k].pc \in {"conn", "open"}
                  => appB'.att[k].pc = appB.att[k].pc
          /\ appB'.errorMessage =
                IF appB'.lastH \in {"NotAllowedError", "PermissionDeniedError"}
                THEN "denied"
                ELSE IF appB'.lastH \in {"NotFoundError",
                                         "DevicesNotFoundError"}
                     THEN "notfound" ELSE "generic"
          /\ appB'.lastH \in {"NotAllowedError", "PermissionDeniedError"}
                => appB'.micPermissionDenied]_vars

\* getUserMedia has rejected for want of a device while another attempt,
\* started after a stop, is still pending.
C14_Witness ==
  /\ appB.lastH = "NotFoundError"
  /\ appB.errorMessage = "notfound"
  /\ \E k \in 1..Len(appB.att) : appB.att[k].pc = "mic"

\* C6: after an offline event during a start attempt no session becomes
\* live and the status does not become CONNECTED (the claim: it stays IDLE)
\* until the user starts again.
C6_OfflineCancelsStart ==
  appB.offlineInFlight => appB.status # "CONNECTED" /\ LiveB = {}

(***************************************************************************)
(* Variant D: properties.                                                  *)
(***************************************************************************)
\* C10: after the user has stopped the session, no retry timer invokes
\* startSession until the next user-initiated start.
C10_NoRetryAfterUserStop ==
  appD.lastH = "retry_start" => ~appD.userStopped

\* C16: the chunks started since the last interruption or stop, taken in the
\* order of their start (the order of their messages when they are handled in
\* order), lie one after the other on the playback timeline: each starts no
\* earlier than the start plus the duration of every chunk before it, and no
\* earlier than the playback context's time when its message was received.
C16_ChunksQueuedBackToBack ==
  LET q == appA.sched IN
  \A i \in 1..Len(q) :
    /\ q[i].start >= q[i].recv
    /\ \A j \in 1..(i - 1) : q[i].start >= q[j].start + q[j].dur

\* Three chunks were started in the order of their messages, the first two
\* time units long, the last one received after the second had been queued.
C16_Witness ==
  LET q == appA.sched IN
  /\ Len(q) = 3 /\ q[1].dur = 2
  /\ q[1].id < q[2].id /\ q[2].id < q[3].id
  /\ q[3].recv > q[2].recv

\* C17: within one session the start times handed to source.start never go
\* down: a chunk whose message is received after an interruption starts no
\* earlier than the chunk started before it.
C17_StartTimesMonotone ==
  appA.lastFresh => appA.prevStart <= appA.lastStart

C20_ModelEntryPerTurn ==
  [][appC'.lastH = "turn" /\ Trim(appC'.turnBuf.output) # <<>> =>
       LET added == SubSeq(appC'.translateHistory,
                           Len(appC.translateHistory) + 1,
                           Len(appC'.translateHistory))
                    \o SubSeq(appC'.chatHistory, Len(appC.chatHistory) + 1,
                              Len(appC'.chatHistory))
           models == {i \in 1..Len(added) : added[i].speaker = "model"}
       IN /\ \E i \in models :
               models = {i} /\ added[i].text = Trim(appC'.turnBuf.output)
          /\ appC'.transcriptionRef = [input |-> <<>>, output |-> <<>>]]_vars

\* C21: a turn-complete message handled while the session is awake and the
\* trimmed input buffer is not empty appends exactly one user entry with
\* that text; a turn-complete message handled while the session is not awake
\* appends no user entry.
C21_AwakeTurnAppendsUserEntry ==
  [][appA'.lastH = "turn" =>
       LET text == Trim(appA'.turnBuf.input)
           added == SubSeq(appA'.history, Len(appA.history) + 1,
                           Len(appA'.history))
           users == {i \in 1..Len(added) : added[i].speaker = "user"}
       IN /\ appA.isAwake /\ text # <<>> =>
               \E i \in users : users = {i} /\ added[i].text = text
          /\ ~appA.isAwake /\ ~appA'.isAwake => users = {}]_vars

\* C22: the transcript buffers are emptied by the turn-complete block and by
\* nothing else: a step that handles a turn-complete message leaves both
\* buffers empty, and every other step keeps the text each buffer held as the
\* beginning of what it holds afterwards.
C22_BuffersClearedOnlyByTurnComplete ==
  [][LET old == appA.transcriptionRef
         new == appA'.transcriptionRef
     IN IF appA'.lastH = "turn"
        THEN new = [input |-> <<>>, output |-> <<>>]
        ELSE /\ Len(old.input) <= Len(new.input)
             /\ SubSeq(new.input, 1, Len(old.input)) = old.input
             /\ Len(old.output) <= Len(new.output)
             /\ SubSeq(new.output, 1, Len(old.output)) = old.output]_vars

\* C23: after an input fragment has been handled, if the case-folded input
\* fragments received so far in the turn, put together, contain a wake
\* phrase, the session is awake.
C23_WakeMatchesAccumulatedInput ==
  [][/\ appA'.lastH \in {"fragment", "interrupted"}
     /\ appA'.heard # appA.heard
     /\ \E w \in wakeTriggers : Includes(appA'.heard, w)
     => appA'.isAwake]_vars

\* C24: once an output fragment of the turn has set the mood, the messages
\* handled until the turn completes leave the mood as it is.
C24_FirstMoodTagWins ==
  [][/\ appA'.lastH \in {"fragment", "interrupted", "turn"}
     /\ appA.moodSet
     => appA'.currentMood = appA.currentMood]_vars

\* C25: no model entry of the history has a bracketed mood tag of the
\* vocabulary in its text, and no entry has a text that is empty once trimmed.
C25_EntriesCarryNoMoodTag ==
  \A i \in 1..Len(appA.history) :
    LET e == appA.history[i] IN
    /\ Trim(e.text) # <<>>
    /\ e.speaker = "model" =>
         \A word \in {"HAPPY", "SAD", "ANGRY", "SURPRISED", "COOL", "NEUTRAL"} :
           ~Includes(e.text, MoodTag(word))

\* C26: a message whose audio payload is malformed leaves the status, the
\* set of live chunks and the timeline cursor as they were, and when it
\* carries the turn-complete mark the turn is completed: both transcript
\* buffers are empty afterwards.
C26_BadAudioSkipsOnlyTheChunk ==
  [][appA'.lastH \in {"bad_audio", "bad_audio_turn"} =>
       /\ appA'.status = appA.status
       /\ appA'.sourcesRef = appA.sourcesRef
       /\ appA'.nextStartTimeRef = appA.nextStartTimeRef
       /\ appA'.lastH = "bad_audio_turn" =>
            appA'.transcriptionRef = [input |-> <<>>, output |-> <<>>]]_vars

\* C27: the k-th consecutive reconnect (the k-th timer of a chain: each
\* started by the failure of the attempt the timer before it started, with
\* no onopen and no start or stop by the user in between) is scheduled with
\* the delay RETRY_DELAY_BASE * 2^(k-1), 2000, 4000, 8000, strictly
\* increasing in k, and the retry counter is within 0..MAX_RETRIES in every
\* reachable state.
C27_BackoffDoubles ==
  /\ [](appA.retryCountRef \in 0..MAX_RETRIES_A)
  /\ [][(appA'.nTimers # appA.nTimers
           /\ \E t \in appA'.timers : t.id = appA'.nTimers)
         => /\ appA'.runK \in 1..MAX_RETRIES_A
            /\ appA'.runDelay = RETRY_DELAY_BASE * 2 ^ (appA'.runK - 1)
            /\ \A l \in appA.chain : l.k = appA'.runK - 1
                                       => l.delay < appA'.runDelay]_vars

Distance(a, b) == IF a >= b THEN a - b ELSE b - a

\* C28: the round trip of a frame of N samples in [-1,1] through the codec
\* gives a frame of N samples, each less than 2/32768 away from the
\* original (the fraction dropped by the 16-bit store, below 1/32768, plus
\* |s|/32768 for the scale 32767 against 32768).
C28_RoundTripWithinTwoSteps ==
  codec.pc = "played"
    => /\ Len(codec.played) = Len(codec.frame)
       /\ \A i \in 1..Len(codec.frame) :
            Distance(codec.played[i], codec.frame[i]) < 2 * (Unit \div 32768)

\* A frame with a sample at each end of the range and just inside it has
\* gone through the codec.
C28_Witness ==
  /\ codec.pc = "played" /\ Len(codec.frame) = MaxFrame
  /\ codec.frame[1] = Unit - 1 /\ codec.frame[2] = -Unit
  /\ codec.played # codec.frame

\* C28 as stated: every sample of the round trip is within 1/32768 of the
\* original.
C28_RoundTripWithinOneStep ==
  codec.pc = "played"
    => /\ Len(codec.played) = Len(codec.frame)
       /\ \A i \in 1..Len(codec.frame) :
            Distance(codec.played[i], codec.frame[i]) <= Unit \div 32768

\* C29: after the close event of the live session, not asked for by the
\* user, has arrived while the status is CONNECTED, the status is IDLE or
\* RECONNECTING and the session handle is released, whether the session was
\* started from IDLE or from ERROR.
C29_RemoteCloseLeavesConnected ==
  [][appA'.lastH = "remote_close" /\ appA.status = "CONNECTED"
       => /\ appA'.status \in {"IDLE", "RECONNECTING"}
          /\ appA'.sessionRef = Null]_vars

\* C30: whenever a start attempt of the second App of part_000 is in flight
\* (startSession has passed the guard, and neither onopen nor a failure has
\* happened yet), isConnectingRef is true.
C30_InFlightHoldsGuard ==
  (\E k \in 1..Len(appD.att) :
     appD.att[k].pc \in {"resume1", "resume2", "mic", "conn"})
    => appD.isConnectingRef

\* C31: in the second App of part_000, whenever a retry timer is pending
\* the connection status is RECONNECTING.
C31_PendingRetryShowsReconnecting ==
  appD.timers # {} => appD.status = "RECONNECTING"

\* C32: the session that togglePoliteMode or switchMode restarts after
\* 100 ms is configured with the politeness flag and the mode set by that
\* handler: startSession builds its system instruction from the new values.
C32_RestartUsesNewSettings ==
  [][appA'.lastH = "restart" /\ Len(appA'.att) > Len(appA.att)
       => appA'.instruction = Head(appA.wanted)]_vars

\* C33: whenever the live chunk set of the first App is non-empty, the
\* speaking flag is true.
C33_LiveChunksMeanSpeaking ==
  appA.sourcesRef # {} => appA.isSpeaking

\* C34: a chunk whose decode was still awaited when an interrupted message
\* or stopSession was handled is not started and not added to the live set
\* when its decode resolves.
C34_StaleChunkNeverStarted ==
  [][appA'.lastH = "scheduled" /\ ~appA'.lastFresh
       => /\ appA'.sourcesRef = appA.sourcesRef
          /\ appA'.playing = appA.playing]_vars

\* C36: when a new session of the second App starts, both transcript
\* buffers are empty: fragments of a session stopped before its turn
\* completed do not reach an entry of a later session.
C36_NewSessionStartsWithEmptyBuffers ==
  [][Len(appB'.att) > Len(appB.att)
       => appB'.transcriptionRef = [input |-> <<>>, output |-> <<>>]]_vars

\* C35: the first audio chunk a session of the second App starts is not
\* started later than the current time of its playback context: the cursor
\* left by an earlier session does not delay it.
C35_FirstChunkStartsNow ==
  [][(appB'.lastH = "scheduled" /\ appB'.lastStart.first
       /\ appB'.lastStart.ctx = appB'.outputAudioCtxRef)
       => appB'.lastStart.start <= appB'.clock]_vars

\* C37: in the second App of part_000 every entry of translateHistory has
\* mode TRANSLATE and every entry of chatHistory has mode CHAT, and a
\* turn-complete leaves the entries that were there as they were, in their
\* order: each list after it begins with the list before it.
C37_HistoriesKeepTheirMode ==
  /\ [](/\ \A i \in 1..Len(appD.translateHistory) :
             appD.translateHistory[i].mode = "TRANSLATE"
        /\ \A i \in 1..Len(appD.chatHistory) :
             appD.chatHistory[i].mode = "CHAT")
  /\ [][/\ Len(appD'.translateHistory) >= Len(appD.translateHistory)
        /\ SubSeq(appD'.translateHistory, 1, Len(appD.translateHistory))
             = appD.translateHistory
        /\ Len(appD'.chatHistory) >= Len(appD.chatHistory)
        /\ SubSeq(appD'.chatHistory, 1, Len(appD.chatHistory))
             = appD.chatHistory]_vars

\* A turn of a session that was started in the other mode has completed, and
\* both lists hold entries.
C37_Witness ==
  /\ appD.lastH = "turn_other_mode"
  /\ appD.translateHistory # <<>> /\ appD.chatHistory # <<>>

\* C38: in the first App of src/App.tsx, a capture callback that fires after
\* stopSession has called close() on its context leaves the volume as it was
\* and calls sendRealtimeInput on no session.
C38_LateCaptureHasNoEffect ==
  [][appA'.lastH = "late_capture"
      => /\ appA'.volume = appA.volume
         /\ appA'.frameTo = Null]_vars

\* C39: the service worker is network-first.  Every answered fetch event
\* whose network fetch succeeded has the network's response; the cache was
\* consulted only for events whose network fetch failed; and the cache
\* changes only when addAll of the installation settles, to hold exactly the
\* three static assets, never through a fetch event.
C39_NetworkFirst ==
  /\ [](\A i \in 1..Len(sw.events) :
          sw.events[i].pc = "done"
            => /\ sw.events[i].netOk
                    => sw.events[i].response
                         = [from |-> "network", body |-> sw.events[i].netBody]
               /\ sw.events[i].matched => ~sw.events[i].netOk)
  /\ [][sw'.cache # sw.cache
          => /\ sw.state = "installing" /\ sw'.lastH = "addAll"
             /\ DOMAIN sw'.cache = STATIC_ASSETS
             /\ sw'.events = sw.events]_vars

\* One fetch of a cached asset was answered by the network with a body that
\* differs from the cached one, and another, whose network fetch failed, was
\* answered from the cache.
C39_Witness ==
  \E i, j \in 1..Len(sw.events) :
    /\ sw.events[i].pc = "done" /\ sw.events[i].netOk
    /\ sw.events[i].url \in DOMAIN sw.cache
    /\ sw.cache[sw.events[i].url] # sw.events[i].netBody
    /\ sw.events[j].pc = "done" /\ sw.events[j].matched
    /\ sw.events[j].response.from = "cache"

\* C12: an onerror with a terminal message (with the close event that follows
\* it) leaves no reconnect timer pending that was not pending before.
C12_TerminalErrorNoRetry ==
  [][appD'.lastH = "terminal_error" => appD'.timers \subseteq appD.timers]_vars

====
